---- MODULE Spec2Model ----
(***************************************************************************)
(* A model of the chess rules engine of src/components/ChessGame.tsx: the  *)
(* React component state, the pure helpers (attack detection, move         *)
(* generation, legality filter, classifiers) and the handlers that change  *)
(* the state (square click, promotion choice, AI timer callback, reset,    *)
(* resignation).                                                           *)
(*                                                                         *)
(* The helpers getPseudoLegalMoves and getValidMoves read enPassantTarget  *)
(* and castlingRights from the render they were created in (they are       *)
(* useCallback closures), not from their arguments.  In the model these    *)
(* captured values are explicit parameters (ep, rights), and every call    *)
(* site passes the values that the closure holds at that call in the code. *)
(***************************************************************************)
EXTENDS Integers, Sequences, FiniteSets, TLC

\* ------------------------------------------------------------------------
\* Bounds of the model
\* ------------------------------------------------------------------------

\* Board-changing events (moves applied by White or by the AI, and resets)
\* explored from an initial state.
MaxEvents == 2

\* ------------------------------------------------------------------------
\* Data model (ChessGame.tsx 7-17, 72-77)
\* ------------------------------------------------------------------------

BoardSize == 8

Idx == 0 .. (BoardSize - 1)

PieceType == {"king", "queen", "rook", "bishop", "knight", "pawn"}

PieceColor == {"white", "black"}

\* Piece | null: null is the record NoPiece.
NoPiece == [type |-> "none", color |-> "none"]

P(t, c) == [type |-> t, color |-> c]

\* Position | null: null is the record NoPos.
NoPos == [row |-> -1, col |-> -1]

Sq(r, c) == [row |-> r, col |-> c]

AllSquares == {Sq(r, c) : r \in Idx, c \in Idx}

Opponent(color) == IF color = "white" THEN "black" ELSE "white"

InitialRights ==
  [whiteKingside |-> TRUE, whiteQueenside |-> TRUE,
   blackKingside |-> TRUE, blackQueenside |-> TRUE]

EmptyBoard == [r \in Idx |-> [c \in Idx |-> NoPiece]]

BackRank == <<"rook", "knight", "bishop", "queen", "king", "bishop", "knight", "rook">>

initializeBoard ==
  [r \in Idx |-> [c \in Idx |->
     CASE r = 0 -> P(BackRank[c + 1], "black")
       [] r = 1 -> P("pawn", "black")
       [] r = 6 -> P("pawn", "white")
       [] r = 7 -> P(BackRank[c + 1], "white")
       [] OTHER -> NoPiece]]

\* ------------------------------------------------------------------------
\* Pure helpers
\* ------------------------------------------------------------------------

isValidSquare(r, c) == r >= 0 /\ r < BoardSize /\ c >= 0 /\ c < BoardSize

Abs(n) == IF n < 0 THEN -n ELSE n

\* The first king of that colour in row-major order.
findKing(b, color) ==
  LET ks == {s \in AllSquares : b[s.row][s.col] = P("king", color)}
  IN IF ks = {} THEN NoPos
     ELSE CHOOSE s \in ks :
            \A t \in ks : s.row < t.row \/ (s.row = t.row /\ s.col <= t.col)

KnightOffsets ==
  {<<-2, -1>>, <<-2, 1>>, <<-1, -2>>, <<-1, 2>>,
   <<1, -2>>, <<1, 2>>, <<2, -1>>, <<2, 1>>}

DiagonalDirs == {<<1, 1>>, <<1, -1>>, <<-1, 1>>, <<-1, -1>>}

StraightDirs == {<<0, 1>>, <<0, -1>>, <<1, 0>>, <<-1, 0>>}

AllDirs == DiagonalDirs \cup StraightDirs

\* The while loop of a sliding attack check: walk from (r, c) in direction
\* (dr, dc); the first occupied square decides.
RECURSIVE RayAttacked(_, _, _, _, _, _, _)
RayAttacked(b, r, c, dr, dc, byColor, kinds) ==
  IF ~isValidSquare(r, c) THEN FALSE
  ELSE IF b[r][c] # NoPiece
       THEN b[r][c].color = byColor /\ b[r][c].type \in kinds
       ELSE RayAttacked(b, r + dr, c + dc, dr, dc, byColor, kinds)

\* Pawns that attack towards their own side.
isSquareUnderAttackFromAhead(pos, b, byColor) ==
  LET pawnDirection == IF byColor = "white" THEN 1 ELSE -1
  IN \/ \E offset \in {-1, 1} :
          /\ isValidSquare(pos.row - pawnDirection, pos.col + offset)
          /\ b[pos.row - pawnDirection][pos.col + offset] = P("pawn", byColor)
     \/ \E d \in KnightOffsets :
          /\ isValidSquare(pos.row + d[1], pos.col + d[2])
          /\ b[pos.row + d[1]][pos.col + d[2]] = P("knight", byColor)
     \/ \E d \in AllDirs :
          /\ isValidSquare(pos.row + d[1], pos.col + d[2])
          /\ b[pos.row + d[1]][pos.col + d[2]] = P("king", byColor)
     \/ \E d \in DiagonalDirs :
          RayAttacked(b, pos.row + d[1], pos.col + d[2], d[1], d[2], byColor,
                      {"bishop", "queen"})
     \/ \E d \in StraightDirs :
          RayAttacked(b, pos.row + d[1], pos.col + d[2], d[1], d[2], byColor,
                      {"rook", "queen"})

isSquareUnderAttack(pos, b, byColor) ==
  LET pawnDirection == IF byColor = "white" THEN -1 ELSE 1
  IN \/ \E offset \in {-1, 1} :
          /\ isValidSquare(pos.row - pawnDirection, pos.col + offset)
          /\ b[pos.row - pawnDirection][pos.col + offset] = P("pawn", byColor)
     \/ \E d \in KnightOffsets :
          /\ isValidSquare(pos.row + d[1], pos.col + d[2])
          /\ b[pos.row + d[1]][pos.col + d[2]] = P("knight", byColor)
     \/ \E d \in AllDirs :
          /\ isValidSquare(pos.row + d[1], pos.col + d[2])
          /\ b[pos.row + d[1]][pos.col + d[2]] = P("king", byColor)
     \/ \E d \in DiagonalDirs :
          RayAttacked(b, pos.row + d[1], pos.col + d[2], d[1], d[2], byColor,
                      {"bishop", "queen"})
     \/ \E d \in StraightDirs :
          RayAttacked(b, pos.row + d[1], pos.col + d[2], d[1], d[2], byColor,
                      {"rook", "queen"})

isKingInCheck(b, color) ==
  LET kingPos == findKing(b, color)
  IN IF kingPos = NoPos THEN FALSE
     ELSE isSquareUnderAttack(kingPos, b, Opponent(color))

\* The while loop of a sliding piece's move generation.
RECURSIVE RayMoves(_, _, _, _, _, _)
RayMoves(b, r, c, dr, dc, color) ==
  IF ~isValidSquare(r, c) THEN {}
  ELSE IF b[r][c] # NoPiece
       THEN (IF b[r][c].color # color THEN {Sq(r, c)} ELSE {})
       ELSE {Sq(r, c)} \cup RayMoves(b, r + dr, c + dc, dr, dc, color)

isEmptyOrEnemy(b, r, c, color) ==
  isValidSquare(r, c) /\ (b[r][c] = NoPiece \/ b[r][c].color # color)

SlideMoves(b, row, col, dirs, color) ==
  UNION {RayMoves(b, row + d[1], col + d[2], d[1], d[2], color) : d \in dirs}

PawnMoves(b, row, col, color, ep) ==
  LET direction == IF color = "white" THEN -1 ELSE 1
      startRow == IF color = "white" THEN 6 ELSE 1
      forward ==
        IF isValidSquare(row + direction, col) /\ b[row + direction][col] = NoPiece
        THEN {Sq(row + direction, col)} \cup
             (IF row = startRow /\ b[row + 2 * direction][col] = NoPiece
              THEN {Sq(row + 2 * direction, col)} ELSE {})
        ELSE {}
      captures ==
        {Sq(row + direction, col + offset) : offset \in
           {o \in {-1, 1} :
              /\ isValidSquare(row + direction, col + o)
              /\ \/ /\ b[row + direction][col + o] # NoPiece
                    /\ b[row + direction][col + o].color # color
                 \/ /\ ep # NoPos
                    /\ row + direction = ep.row
                    /\ col + o = ep.col}}
  IN forward \cup captures

\* Castling that does not test the transit square for attack.
CastlingMovesThroughAttack(b, row, col, color, rights) ==
  LET baseRow == IF color = "white" THEN 7 ELSE 0
      opp == Opponent(color)
      kingside == IF color = "white" THEN rights.whiteKingside ELSE rights.blackKingside
      queenside == IF color = "white" THEN rights.whiteQueenside ELSE rights.blackQueenside
  IN IF ~isKingInCheck(b, color) /\ row = baseRow /\ col = 4
     THEN (IF /\ kingside
              /\ b[baseRow][5] = NoPiece /\ b[baseRow][6] = NoPiece
              /\ b[baseRow][7].type = "rook"
              /\ ~isSquareUnderAttack(Sq(baseRow, 6), b, opp)
           THEN {Sq(baseRow, 6)} ELSE {})
          \cup
          (IF /\ queenside
              /\ b[baseRow][3] = NoPiece /\ b[baseRow][2] = NoPiece
              /\ b[baseRow][1] = NoPiece
              /\ b[baseRow][0].type = "rook"
              /\ ~isSquareUnderAttack(Sq(baseRow, 2), b, opp)
           THEN {Sq(baseRow, 2)} ELSE {})
     ELSE {}

CastlingMoves(b, row, col, color, rights) ==
  LET baseRow == IF color = "white" THEN 7 ELSE 0
      opp == Opponent(color)
      kingside == IF color = "white" THEN rights.whiteKingside ELSE rights.blackKingside
      queenside == IF color = "white" THEN rights.whiteQueenside ELSE rights.blackQueenside
  IN IF ~isKingInCheck(b, color) /\ row = baseRow /\ col = 4
     THEN (IF /\ kingside
              /\ b[baseRow][5] = NoPiece /\ b[baseRow][6] = NoPiece
              /\ b[baseRow][7].type = "rook"
              /\ ~isSquareUnderAttack(Sq(baseRow, 5), b, opp)
              /\ ~isSquareUnderAttack(Sq(baseRow, 6), b, opp)
           THEN {Sq(baseRow, 6)} ELSE {})
          \cup
          (IF /\ queenside
              /\ b[baseRow][3] = NoPiece /\ b[baseRow][2] = NoPiece
              /\ b[baseRow][1] = NoPiece
              /\ b[baseRow][0].type = "rook"
              /\ ~isSquareUnderAttack(Sq(baseRow, 3), b, opp)
              /\ ~isSquareUnderAttack(Sq(baseRow, 2), b, opp)
           THEN {Sq(baseRow, 2)} ELSE {})
     ELSE {}

\* ep and rights are the enPassantTarget and castlingRights captured by the closure.
getPseudoLegalMoves(pos, b, ep, rights) ==
  LET piece == b[pos.row][pos.col]
      row == pos.row
      col == pos.col
      color == piece.color
  IN CASE piece = NoPiece -> {}
       [] piece.type = "pawn" -> PawnMoves(b, row, col, color, ep)
       [] piece.type = "knight" ->
            {Sq(row + d[1], col + d[2]) :
               d \in {e \in KnightOffsets : isEmptyOrEnemy(b, row + e[1], col + e[2], color)}}
       [] piece.type = "bishop" -> SlideMoves(b, row, col, DiagonalDirs, color)
       [] piece.type = "rook" -> SlideMoves(b, row, col, StraightDirs, color)
       [] piece.type = "queen" -> SlideMoves(b, row, col, AllDirs, color)
       [] piece.type = "king" ->
            {Sq(row + d[1], col + d[2]) :
               d \in {e \in AllDirs : isEmptyOrEnemy(b, row + e[1], col + e[2], color)}}
            \cup CastlingMoves(b, row, col, color, rights)

\* SimulateMove without lines 380-385: the pawn captured en passant stays on
\* the scratch board.
SimulateMoveKeepsPawn(pos, move, b, ep) ==
  LET piece == b[pos.row][pos.col]
      b1 == b
      isKingside == move.col > pos.col
      rookFromCol == IF isKingside THEN 7 ELSE 0
      rookToCol == IF isKingside THEN 5 ELSE 3
      b2 == IF piece.type = "king" /\ Abs(move.col - pos.col) = 2
            THEN [b1 EXCEPT ![pos.row][rookToCol] = b1[pos.row][rookFromCol],
                            ![pos.row][rookFromCol] = NoPiece]
            ELSE b1
  IN [b2 EXCEPT ![move.row][move.col] = b2[pos.row][pos.col],
                ![pos.row][pos.col] = NoPiece]

\* The scratch board of getValidMoves for the move pos -> move.
SimulateMove(pos, move, b, ep) ==
  LET piece == b[pos.row][pos.col]
      capturedPawnRow == IF piece.color = "white" THEN move.row + 1 ELSE move.row - 1
      b1 == IF piece.type = "pawn" /\ ep # NoPos /\ move.row = ep.row /\ move.col = ep.col
            THEN [b EXCEPT ![capturedPawnRow][move.col] = NoPiece]
            ELSE b
      isKingside == move.col > pos.col
      rookFromCol == IF isKingside THEN 7 ELSE 0
      rookToCol == IF isKingside THEN 5 ELSE 3
      b2 == IF piece.type = "king" /\ Abs(move.col - pos.col) = 2
            THEN [b1 EXCEPT ![pos.row][rookToCol] = b1[pos.row][rookFromCol],
                            ![pos.row][rookFromCol] = NoPiece]
            ELSE b1
  IN [b2 EXCEPT ![move.row][move.col] = b2[pos.row][pos.col],
                ![pos.row][pos.col] = NoPiece]

getValidMoves(pos, b, ep, rights) ==
  LET piece == b[pos.row][pos.col]
  IN IF piece = NoPiece THEN {}
     ELSE {move \in getPseudoLegalMoves(pos, b, ep, rights) :
             /\ b[move.row][move.col].type # "king"
             /\ ~isKingInCheck(SimulateMove(pos, move, b, ep), piece.color)}

PiecesOf(b, color) == {s \in AllSquares : b[s.row][s.col].color = color}

HasNoValidMove(b, color, ep, rights) ==
  \A s \in PiecesOf(b, color) : getValidMoves(s, b, ep, rights) = {}

checkForCheckmate(b, color, ep, rights) ==
  isKingInCheck(b, color) /\ HasNoValidMove(b, color, ep, rights)

\* A stalemate test without the look at the king.
checkForStalemateAnyKing(b, color, ep, rights) ==
  HasNoValidMove(b, color, ep, rights)

checkForStalemate(b, color, ep, rights) ==
  ~isKingInCheck(b, color) /\ HasNoValidMove(b, color, ep, rights)

\* ------------------------------------------------------------------------
\* Position key and material (ChessGame.tsx 441-504)
\* ------------------------------------------------------------------------

\* `${piece.color[0]}` and `${piece.type[0]}`: the first character of the name.
FirstChar(name) ==
  CASE name = "white" -> "w"
    [] name = "black" -> "b"
    [] name = "king" -> "k"
    [] name = "queen" -> "q"
    [] name = "rook" -> "r"
    [] name = "bishop" -> "b"
    [] name = "knight" -> "k"
    [] name = "pawn" -> "p"

\* `${boolean}` in a template literal.
BoolStr(v) == IF v THEN "true" ELSE "false"

\* What the loop body appends for one square.
SquareToString(b, row, col) ==
  IF b[row][col] # NoPiece
  THEN FirstChar(b[row][col].color) \o FirstChar(b[row][col].type)
       \o ToString(row) \o ToString(col)
  ELSE ""

\* The inner loop over the columns 0..7 of one row.
RowToString(b, row) ==
  SquareToString(b, row, 0) \o SquareToString(b, row, 1)
  \o SquareToString(b, row, 2) \o SquareToString(b, row, 3)
  \o SquareToString(b, row, 4) \o SquareToString(b, row, 5)
  \o SquareToString(b, row, 6) \o SquareToString(b, row, 7)

\* The outer loop over the rows 0..7.
SquaresToString(b) ==
  RowToString(b, 0) \o RowToString(b, 1) \o RowToString(b, 2) \o RowToString(b, 3)
  \o RowToString(b, 4) \o RowToString(b, 5) \o RowToString(b, 6) \o RowToString(b, 7)

boardToString(b, turn, rights, enPassant) ==
  SquaresToString(b)
  \o "|" \o turn \o "|"
  \o BoolStr(rights.whiteKingside) \o BoolStr(rights.whiteQueenside)
  \o BoolStr(rights.blackKingside) \o BoolStr(rights.blackQueenside)
  \o (IF enPassant # NoPos
      THEN "|ep" \o ToString(enPassant.row) \o ToString(enPassant.col)
      ELSE "")

hasInsufficientMaterial(b) ==
  LET pieces == {s \in AllSquares :
                   b[s.row][s.col] # NoPiece /\ b[s.row][s.col].type # "king"}
      bishops == {s \in AllSquares : b[s.row][s.col].type = "bishop"}
  IN CASE Cardinality(pieces) = 0 -> TRUE
       [] Cardinality(pieces) = 1 ->
            \E s \in pieces : b[s.row][s.col].type \in {"bishop", "knight"}
       [] Cardinality(pieces) = 2 ->
            /\ \A s \in pieces : b[s.row][s.col].type = "bishop"
            /\ \A s, t \in bishops : (s.row + s.col) % 2 = (t.row + t.col) % 2
       [] OTHER -> FALSE

\* newHistory.filter(pos => pos === key).length
CountOf(history, key) == Cardinality({i \in 1 .. Len(history) : history[i] = key})

\* ------------------------------------------------------------------------
\* Moving a piece: the part of handleSquareClick (741-793) that makeAIMove
\* repeats (574-626).  side is the colour the handler plays ("white" in
\* handleSquareClick, "black" in makeAIMove): each handler clears rook rights
\* only for its own colour.
\* ------------------------------------------------------------------------

\* MoveOutcome without the assignment that empties the origin square (793,
\* 626).
MoveOutcomeKeepsOrigin(b, from, to, rights, ep, side) ==
  LET movingPiece == b[from.row][from.col]
      target == b[to.row][to.col]
      isEnPassant == /\ movingPiece.type = "pawn" /\ ep # NoPos
                     /\ to.row = ep.row /\ to.col = ep.col
      capturedPawnRow == IF movingPiece.color = "white" THEN to.row + 1 ELSE to.row - 1
      capturedPiece == IF isEnPassant THEN b[capturedPawnRow][to.col] ELSE target
      isCapture == isEnPassant \/ target # NoPiece
      b1 == IF isEnPassant THEN [b EXCEPT ![capturedPawnRow][to.col] = NoPiece] ELSE b
      isCastling == movingPiece.type = "king" /\ Abs(to.col - from.col) = 2
      isKingside == to.col > from.col
      rookFromCol == IF isKingside THEN 7 ELSE 0
      rookToCol == IF isKingside THEN 5 ELSE 3
      b2 == IF isCastling
            THEN [b1 EXCEPT ![from.row][rookToCol] = b1[from.row][rookFromCol],
                            ![from.row][rookFromCol] = NoPiece]
            ELSE b1
      kingMoved(c) == movingPiece.type = "king" /\ movingPiece.color = c
      rookMoved(c, col) == /\ movingPiece.type = "rook" /\ movingPiece.color = c
                           /\ c = side /\ from.col = col
      newCastlingRights ==
        [whiteKingside |-> rights.whiteKingside /\ ~kingMoved("white") /\ ~rookMoved("white", 7),
         whiteQueenside |-> rights.whiteQueenside /\ ~kingMoved("white") /\ ~rookMoved("white", 0),
         blackKingside |-> rights.blackKingside /\ ~kingMoved("black") /\ ~rookMoved("black", 7),
         blackQueenside |-> rights.blackQueenside /\ ~kingMoved("black") /\ ~rookMoved("black", 0)]
      newEnPassant ==
        IF movingPiece.type = "pawn" /\ Abs(to.row - from.row) = 2
        THEN Sq(IF movingPiece.color = "white" THEN from.row - 1 ELSE from.row + 1, from.col)
        ELSE NoPos
      newBoard == [b2 EXCEPT ![to.row][to.col] = movingPiece]
  IN [movingPiece |-> movingPiece, capturedPiece |-> capturedPiece,
      isCapture |-> isCapture, isEnPassant |-> isEnPassant, isCastling |-> isCastling,
      newBoard |-> newBoard, newCastlingRights |-> newCastlingRights,
      newEnPassant |-> newEnPassant]

\* A king that castles without its rook.
MoveOutcomeLeavesRook(b, from, to, rights, ep, side) ==
  LET movingPiece == b[from.row][from.col]
      target == b[to.row][to.col]
      isEnPassant == /\ movingPiece.type = "pawn" /\ ep # NoPos
                     /\ to.row = ep.row /\ to.col = ep.col
      capturedPawnRow == IF movingPiece.color = "white" THEN to.row + 1 ELSE to.row - 1
      capturedPiece == IF isEnPassant THEN b[capturedPawnRow][to.col] ELSE target
      isCapture == isEnPassant \/ target # NoPiece
      b1 == IF isEnPassant THEN [b EXCEPT ![capturedPawnRow][to.col] = NoPiece] ELSE b
      isCastling == movingPiece.type = "king" /\ Abs(to.col - from.col) = 2
      b2 == b1
      kingMoved(c) == movingPiece.type = "king" /\ movingPiece.color = c
      rookMoved(c, col) == /\ movingPiece.type = "rook" /\ movingPiece.color = c
                           /\ c = side /\ from.col = col
      newCastlingRights ==
        [whiteKingside |-> rights.whiteKingside /\ ~kingMoved("white") /\ ~rookMoved("white", 7),
         whiteQueenside |-> rights.whiteQueenside /\ ~kingMoved("white") /\ ~rookMoved("white", 0),
         blackKingside |-> rights.blackKingside /\ ~kingMoved("black") /\ ~rookMoved("black", 7),
         blackQueenside |-> rights.blackQueenside /\ ~kingMoved("black") /\ ~rookMoved("black", 0)]
      newEnPassant ==
        IF movingPiece.type = "pawn" /\ Abs(to.row - from.row) = 2
        THEN Sq(IF movingPiece.color = "white" THEN from.row - 1 ELSE from.row + 1, from.col)
        ELSE NoPos
      newBoard == [b2 EXCEPT ![to.row][to.col] = movingPiece,
                             ![from.row][from.col] = NoPiece]
  IN [movingPiece |-> movingPiece, capturedPiece |-> capturedPiece,
      isCapture |-> isCapture, isEnPassant |-> isEnPassant, isCastling |-> isCastling,
      newBoard |-> newBoard, newCastlingRights |-> newCastlingRights,
      newEnPassant |-> newEnPassant]

MoveOutcome(b, from, to, rights, ep, side) ==
  LET movingPiece == b[from.row][from.col]
      target == b[to.row][to.col]
      isEnPassant == /\ movingPiece.type = "pawn" /\ ep # NoPos
                     /\ to.row = ep.row /\ to.col = ep.col
      capturedPawnRow == IF movingPiece.color = "white" THEN to.row + 1 ELSE to.row - 1
      capturedPiece == IF isEnPassant THEN b[capturedPawnRow][to.col] ELSE target
      isCapture == isEnPassant \/ target # NoPiece
      b1 == IF isEnPassant THEN [b EXCEPT ![capturedPawnRow][to.col] = NoPiece] ELSE b
      isCastling == movingPiece.type = "king" /\ Abs(to.col - from.col) = 2
      isKingside == to.col > from.col
      rookFromCol == IF isKingside THEN 7 ELSE 0
      rookToCol == IF isKingside THEN 5 ELSE 3
      b2 == IF isCastling
            THEN [b1 EXCEPT ![from.row][rookToCol] = b1[from.row][rookFromCol],
                            ![from.row][rookFromCol] = NoPiece]
            ELSE b1
      kingMoved(c) == movingPiece.type = "king" /\ movingPiece.color = c
      rookMoved(c, col) == /\ movingPiece.type = "rook" /\ movingPiece.color = c
                           /\ c = side /\ from.col = col
      newCastlingRights ==
        [whiteKingside |-> rights.whiteKingside /\ ~kingMoved("white") /\ ~rookMoved("white", 7),
         whiteQueenside |-> rights.whiteQueenside /\ ~kingMoved("white") /\ ~rookMoved("white", 0),
         blackKingside |-> rights.blackKingside /\ ~kingMoved("black") /\ ~rookMoved("black", 7),
         blackQueenside |-> rights.blackQueenside /\ ~kingMoved("black") /\ ~rookMoved("black", 0)]
      newEnPassant ==
        IF movingPiece.type = "pawn" /\ Abs(to.row - from.row) = 2
        THEN Sq(IF movingPiece.color = "white" THEN from.row - 1 ELSE from.row + 1, from.col)
        ELSE NoPos
      newBoard == [b2 EXCEPT ![to.row][to.col] = movingPiece,
                             ![from.row][from.col] = NoPiece]
  IN [movingPiece |-> movingPiece, capturedPiece |-> capturedPiece,
      isCapture |-> isCapture, isEnPassant |-> isEnPassant, isCastling |-> isCastling,
      newBoard |-> newBoard, newCastlingRights |-> newCastlingRights,
      newEnPassant |-> newEnPassant]

\* The evaluation that follows a committed move (handleSquareClick 827-878,
\* makeAIMove 662-712): which rule, if any, ends the game.  next is the side
\* now to move; ep and rights are the values the classifiers' closures hold.
Verdict(newBoard, next, newClock, newHistory, key, ep, rights) ==
  CASE newClock >= 100 -> "fifty"
    [] CountOf(newHistory, key) >= 3 -> "threefold"
    [] hasInsufficientMaterial(newBoard) -> "material"
    [] checkForCheckmate(newBoard, next, ep, rights) -> "checkmate"
    [] checkForStalemate(newBoard, next, ep, rights) -> "stalemate"
    [] OTHER -> "continue"

\* ------------------------------------------------------------------------
\* State (ChessGame.tsx 81-101)
\* ------------------------------------------------------------------------

VARIABLES
  board, selectedSquare, validMoves, currentTurn, capturedPieces,
  castlingRights, enPassantTarget, promotionSquare, whiteInCheck, blackInCheck,
  isCheckmate, isStalemate, isDraw, drawReason, halfMoveClock, positionHistory,
  aiTimers,   \* pending setTimeout callbacks, oldest first
  events,     \* moves applied and resets so far (bounded by MaxEvents)
  last        \* what the latest handler did

gameVars ==
  <<board, currentTurn, capturedPieces, castlingRights, enPassantTarget,
    promotionSquare, whiteInCheck, blackInCheck, isCheckmate, isStalemate,
    isDraw, drawReason, halfMoveClock, positionHistory>>

vars ==
  <<board, selectedSquare, validMoves, currentTurn, capturedPieces,
    castlingRights, enPassantTarget, promotionSquare, whiteInCheck, blackInCheck,
    isCheckmate, isStalemate, isDraw, drawReason, halfMoveClock, positionHistory,
    aiTimers, events, last>>

\* A position of the game: what the rules of repetition compare.
Played(b, turn, rights, ep) ==
  [board |-> b, turn |-> turn, castlingRights |-> rights, enPassantTarget |-> ep]

\* The home squares of the kings and of the rooks.
HomeSquares == {Sq(0, 0), Sq(0, 4), Sq(0, 7), Sq(7, 0), Sq(7, 4), Sq(7, 7)}

\* The record of a game that has just started: no move yet, and with it the
\* course of the game so far: quiet counts the half-moves applied since the
\* latest pawn move or capture, played lists the positions that have occurred,
\* unmoved holds the home squares whose king or rook has stood there since the
\* game began.
NoMove ==
  [op |-> "none", by |-> "none", from |-> NoPos, to |-> NoPos,
   movingPiece |-> NoPiece, capturedPiece |-> NoPiece, isCapture |-> FALSE,
   isEnPassant |-> FALSE, isCastling |-> FALSE, committed |-> FALSE,
   verdict |-> "none",
   quiet |-> 0,
   played |-> <<Played(initializeBoard, "white", InitialRights, NoPos)>>,
   unmoved |-> HomeSquares]

Did(op, by, from, to, o, committed, verdict) ==
  [op |-> op, by |-> by, from |-> from, to |-> to,
   movingPiece |-> o.movingPiece, capturedPiece |-> o.capturedPiece,
   isCapture |-> o.isCapture, isEnPassant |-> o.isEnPassant,
   isCastling |-> o.isCastling, committed |-> committed, verdict |-> verdict,
   quiet |-> IF ~committed THEN last.quiet
             ELSE IF o.movingPiece.type = "pawn" \/ o.isCapture THEN 0
             ELSE last.quiet + 1,
   played |-> IF committed /\ op # "pawnToLastRow"
              THEN Append(last.played,
                          Played(o.newBoard, Opponent(by), o.newCastlingRights,
                                 o.newEnPassant))
              ELSE last.played,
   unmoved |-> IF committed
               THEN last.unmoved
                      \ ({from, to}
                           \cup (IF o.isCastling
                                 THEN {Sq(from.row, IF to.col > from.col THEN 7 ELSE 0)}
                                 ELSE {}))
               ELSE last.unmoved]

\* The callback `() => makeAIMove(newBoard, newCastlingRights, newEnPassant)`:
\* its three arguments, and the state that the makeAIMove of the scheduling
\* render has captured (its dependency list, 715, and that of getValidMoves, 406,
\* and getPseudoLegalMoves, 359).
Timer(b, rights, ep) ==
  [currentBoard |-> b, currentCastlingRights |-> rights, currentEnPassant |-> ep,
   enPassantTarget |-> enPassantTarget, castlingRights |-> castlingRights,
   halfMoveClock |-> halfMoveClock, positionHistory |-> positionHistory]

\* ------------------------------------------------------------------------
\* handleSquareClick (ChessGame.tsx 717-923)
\* ------------------------------------------------------------------------

\* 719: the click returns at once.
ClickBlocked ==
  currentTurn # "white" \/ isCheckmate \/ isDraw \/ promotionSquare # NoPos

\* 724: a square is selected and the clicked square is one of validMoves.
ClickIsMove(row, col) == selectedSquare # NoPos /\ Sq(row, col) \in validMoves

\* The outcome does not depend on the square clicked.
ClickIgnored ==
  /\ ClickBlocked
  /\ UNCHANGED vars

\* 727-739: the two early returns of the move branch.
ClickMoveRejected(row, col) ==
  /\ ~ClickBlocked
  /\ ClickIsMove(row, col)
  /\ \/ /\ board[selectedSquare.row][selectedSquare.col] = NoPiece
        /\ UNCHANGED <<selectedSquare, validMoves>>
     \/ /\ board[selectedSquare.row][selectedSquare.col] # NoPiece
        /\ board[row][col].type = "king"
        /\ selectedSquare' = NoPos
        /\ validMoves' = {}
  /\ UNCHANGED <<gameVars, aiTimers, events, last>>

\* 795-802: a pawn reaches row 0; the move waits for the promotion choice.
ClickMovePromotion(row, col) ==
  LET o == MoveOutcome(board, selectedSquare, Sq(row, col), castlingRights,
                       enPassantTarget, "white")
  IN /\ ~ClickBlocked
     /\ ClickIsMove(row, col)
     /\ o.movingPiece # NoPiece
     /\ board[row][col].type # "king"
     /\ o.movingPiece.type = "pawn" /\ row = 0
     /\ events < MaxEvents
     /\ promotionSquare' = Sq(row, col)
     /\ board' = o.newBoard
     /\ selectedSquare' = NoPos
     /\ validMoves' = {}
     /\ events' = events + 1
     /\ last' = Did("pawnToLastRow", "white", selectedSquare, Sq(row, col), o, TRUE, "pending")
     /\ UNCHANGED <<currentTurn, capturedPieces, castlingRights, enPassantTarget,
                    whiteInCheck, blackInCheck, isCheckmate, isStalemate, isDraw,
                    drawReason, halfMoveClock, positionHistory, aiTimers>>

\* A move of White after which nobody looks at the black king.
ClickMoveAppliedNoCheck(row, col) ==
  LET o == MoveOutcome(board, selectedSquare, Sq(row, col), castlingRights,
                       enPassantTarget, "white")
      newClock == IF o.movingPiece.type = "pawn" \/ o.isCapture
                  THEN 0 ELSE halfMoveClock + 1
      key == boardToString(o.newBoard, "black", o.newCastlingRights, o.newEnPassant)
      newHistory == Append(positionHistory, key)
      v == Verdict(o.newBoard, "black", newClock, newHistory, key,
                   enPassantTarget, castlingRights)
      checkBlack == isKingInCheck(o.newBoard, "black")
  IN /\ ~ClickBlocked
     /\ ClickIsMove(row, col)
     /\ o.movingPiece # NoPiece
     /\ board[row][col].type # "king"
     /\ ~(o.movingPiece.type = "pawn" /\ row = 0)
     /\ events < MaxEvents
     /\ capturedPieces' =
          IF o.isCapture /\ o.capturedPiece # NoPiece
          THEN [capturedPieces EXCEPT !.black = Append(@, o.capturedPiece)]
          ELSE capturedPieces
     /\ board' = o.newBoard
     /\ castlingRights' = o.newCastlingRights
     /\ enPassantTarget' = o.newEnPassant
     /\ selectedSquare' = NoPos
     /\ validMoves' = {}
     /\ halfMoveClock' = newClock
     /\ positionHistory' = IF v = "fifty" THEN positionHistory ELSE newHistory
     /\ isDraw' = (v \in {"fifty", "threefold", "material", "stalemate"})
     /\ drawReason' =
          CASE v = "fifty" -> "Fifty-move rule"
            [] v = "threefold" -> "Threefold repetition"
            [] v = "material" -> "Insufficient material"
            [] v = "stalemate" -> "Stalemate"
            [] OTHER -> drawReason
     /\ IF v \in {"fifty", "threefold", "material"}
        THEN UNCHANGED <<whiteInCheck, blackInCheck>>
        ELSE blackInCheck' = FALSE /\ whiteInCheck' = FALSE
     /\ isCheckmate' = (v = "checkmate")
     /\ isStalemate' = IF v = "stalemate" THEN TRUE ELSE isStalemate
     /\ currentTurn' = IF v = "continue" THEN "black" ELSE currentTurn
     /\ aiTimers' = IF v = "continue"
                    THEN Append(aiTimers,
                                Timer(o.newBoard, o.newCastlingRights, o.newEnPassant))
                    ELSE aiTimers
     /\ events' = events + 1
     /\ last' = Did("move", "white", selectedSquare, Sq(row, col), o, TRUE, v)
     /\ UNCHANGED promotionSquare

\* 804-885: every other move is committed and the position evaluated.
ClickMoveApplied(row, col) ==
  LET o == MoveOutcome(board, selectedSquare, Sq(row, col), castlingRights,
                       enPassantTarget, "white")
      newClock == IF o.movingPiece.type = "pawn" \/ o.isCapture
                  THEN 0 ELSE halfMoveClock + 1
      key == boardToString(o.newBoard, "black", o.newCastlingRights, o.newEnPassant)
      newHistory == Append(positionHistory, key)
      v == Verdict(o.newBoard, "black", newClock, newHistory, key,
                   enPassantTarget, castlingRights)
      checkBlack == isKingInCheck(o.newBoard, "black")
  IN /\ ~ClickBlocked
     /\ ClickIsMove(row, col)
     /\ o.movingPiece # NoPiece
     /\ board[row][col].type # "king"
     /\ ~(o.movingPiece.type = "pawn" /\ row = 0)
     /\ events < MaxEvents
     /\ capturedPieces' =
          IF o.isCapture /\ o.capturedPiece # NoPiece
          THEN [capturedPieces EXCEPT !.black = Append(@, o.capturedPiece)]
          ELSE capturedPieces
     /\ board' = o.newBoard
     /\ castlingRights' = o.newCastlingRights
     /\ enPassantTarget' = o.newEnPassant
     /\ selectedSquare' = NoPos
     /\ validMoves' = {}
     /\ halfMoveClock' = newClock
     /\ positionHistory' = IF v = "fifty" THEN positionHistory ELSE newHistory
     /\ isDraw' = (v \in {"fifty", "threefold", "material", "stalemate"})
     /\ drawReason' =
          CASE v = "fifty" -> "Fifty-move rule"
            [] v = "threefold" -> "Threefold repetition"
            [] v = "material" -> "Insufficient material"
            [] v = "stalemate" -> "Stalemate"
            [] OTHER -> drawReason
     /\ IF v \in {"fifty", "threefold", "material"}
        THEN UNCHANGED <<whiteInCheck, blackInCheck>>
        ELSE blackInCheck' = checkBlack /\ whiteInCheck' = FALSE
     /\ isCheckmate' = (v = "checkmate")
     /\ isStalemate' = IF v = "stalemate" THEN TRUE ELSE isStalemate
     /\ currentTurn' = IF v = "continue" THEN "black" ELSE currentTurn
     /\ aiTimers' = IF v = "continue"
                    THEN Append(aiTimers,
                                Timer(o.newBoard, o.newCastlingRights, o.newEnPassant))
                    ELSE aiTimers
     /\ events' = events + 1
     /\ last' = Did("move", "white", selectedSquare, Sq(row, col), o, TRUE, v)
     /\ UNCHANGED promotionSquare

\* A selection that does not look at the check.
ClickSelectAny(row, col) ==
  LET pieceMoves == getValidMoves(Sq(row, col), board, enPassantTarget, castlingRights)
  IN /\ ~ClickBlocked
     /\ events < MaxEvents
     /\ ~ClickIsMove(row, col)
     /\ board[row][col].color = "white"
     /\ selectedSquare' = Sq(row, col) /\ validMoves' = pieceMoves
     /\ UNCHANGED <<gameVars, aiTimers, events, last>>

\* 887-914: a white piece is clicked.  Once the bound on the events is reached
\* no move can follow a selection, and the game is no longer looked into.
ClickSelect(row, col) ==
  LET pieceMoves == getValidMoves(Sq(row, col), board, enPassantTarget, castlingRights)
  IN /\ ~ClickBlocked
     /\ events < MaxEvents
     /\ ~ClickIsMove(row, col)
     /\ board[row][col].color = "white"
     /\ IF whiteInCheck /\ pieceMoves = {}
        THEN selectedSquare' = NoPos /\ validMoves' = {}
        ELSE selectedSquare' = Sq(row, col) /\ validMoves' = pieceMoves
     /\ UNCHANGED <<gameVars, aiTimers, events, last>>

\* A deselecting click that also starts the AI's delay.
ClickDeselectSchedules ==
  /\ ~ClickBlocked
  /\ {s \in AllSquares :
        ~ClickIsMove(s.row, s.col) /\ board[s.row][s.col].color # "white"} # {}
  /\ selectedSquare' = NoPos
  /\ validMoves' = {}
  /\ aiTimers' = Append(aiTimers, Timer(board, castlingRights, enPassantTarget))
  /\ UNCHANGED <<gameVars, events, last>>

\* 915-922: anything else deselects; the outcome is the same for every such
\* square.
ClickDeselect ==
  /\ ~ClickBlocked
  /\ {s \in AllSquares :
        ~ClickIsMove(s.row, s.col) /\ board[s.row][s.col].color # "white"} # {}
  /\ selectedSquare' = NoPos
  /\ validMoves' = {}
  /\ UNCHANGED <<gameVars, aiTimers, events, last>>

\* The clicked square ranges over the board.  A move branch needs the clicked
\* square to be one of validMoves (724), so there it ranges over validMoves.
handleSquareClick ==
  \/ ClickIgnored
  \/ /\ ~ClickBlocked
     /\ \/ ClickDeselect
        \/ \E row \in Idx, col \in Idx : ClickSelect(row, col)
        \/ \E m \in validMoves :
             \/ ClickMoveRejected(m.row, m.col)
             \/ ClickMovePromotion(m.row, m.col)
             \/ ClickMoveApplied(m.row, m.col)

\* ------------------------------------------------------------------------
\* handlePromotion (ChessGame.tsx 925-956)
\* ------------------------------------------------------------------------

PromotionKinds == {"queen", "rook", "bishop", "knight"}

\* A promotion that gives a queen whatever is chosen.
handlePromotionToQueen(pieceType) ==
  LET newBoard == [board EXCEPT ![promotionSquare.row][promotionSquare.col] =
                                   P("queen", "white")]
      checkBlack == isKingInCheck(newBoard, "black")
      mate == checkForCheckmate(newBoard, "black", enPassantTarget, castlingRights)
  IN /\ promotionSquare # NoPos
     /\ board' = newBoard
     /\ promotionSquare' = NoPos
     /\ blackInCheck' = checkBlack
     /\ whiteInCheck' = FALSE
     /\ isCheckmate' = IF mate THEN TRUE ELSE isCheckmate
     /\ currentTurn' = IF mate THEN currentTurn ELSE "black"
     /\ aiTimers' = IF mate THEN aiTimers
                    ELSE Append(aiTimers, Timer(newBoard, castlingRights, enPassantTarget))
     /\ last' = [last EXCEPT !.op = "promotion",
                             !.movingPiece = P(pieceType, "white"),
                             !.played = Append(@, Played(newBoard, "black",
                                                         castlingRights, NoPos)),
                             !.verdict = IF mate THEN "checkmate" ELSE "continue"]
     /\ UNCHANGED <<selectedSquare, validMoves, capturedPieces, castlingRights,
                    enPassantTarget, isStalemate, isDraw, drawReason, halfMoveClock,
                    positionHistory, events>>

handlePromotion(pieceType) ==
  LET newBoard == [board EXCEPT ![promotionSquare.row][promotionSquare.col] =
                                   P(pieceType, "white")]
      checkBlack == isKingInCheck(newBoard, "black")
      mate == checkForCheckmate(newBoard, "black", enPassantTarget, castlingRights)
  IN /\ promotionSquare # NoPos
     /\ board' = newBoard
     /\ promotionSquare' = NoPos
     /\ blackInCheck' = checkBlack
     /\ whiteInCheck' = FALSE
     /\ isCheckmate' = IF mate THEN TRUE ELSE isCheckmate
     /\ currentTurn' = IF mate THEN currentTurn ELSE "black"
     /\ aiTimers' = IF mate THEN aiTimers
                    ELSE Append(aiTimers, Timer(newBoard, castlingRights, enPassantTarget))
     /\ last' = [last EXCEPT !.op = "promotion",
                             !.movingPiece = P(pieceType, "white"),
                             !.played = Append(@, Played(newBoard, "black",
                                                         castlingRights, NoPos)),
                             !.verdict = IF mate THEN "checkmate" ELSE "continue"]
     /\ UNCHANGED <<selectedSquare, validMoves, capturedPieces, castlingRights,
                    enPassantTarget, isStalemate, isDraw, drawReason, halfMoveClock,
                    positionHistory, events>>

\* ------------------------------------------------------------------------
\* makeAIMove (ChessGame.tsx 507-715), run by the oldest pending timer
\* ------------------------------------------------------------------------

\* Every move of Black's pieces, also those that leave the king in check.
AllMovesUnchecked(t) ==
  UNION {{[from |-> s, to |-> m] :
            m \in getPseudoLegalMoves(s, t.currentBoard, t.enPassantTarget,
                                      t.castlingRights)} :
         s \in PiecesOf(t.currentBoard, "black")}

\* 511-524: every legal move of Black, as the captured getValidMoves sees it.
AllMoves(t) ==
  UNION {{[from |-> s, to |-> m] :
            m \in getValidMoves(s, t.currentBoard, t.enPassantTarget, t.castlingRights)} :
         s \in PiecesOf(t.currentBoard, "black")}

\* A choice among all moves of Black's pieces, without the priorities of a
\* side in check and without the look at the king.
ChoosableMovesAny(t) == AllMovesUnchecked(t)

\* 539-559: the moves that Math.random() can pick.
ChoosableMoves(t) ==
  LET b == t.currentBoard
      allMoves == AllMoves(t)
      kingMoves == {m \in allMoves : b[m.from.row][m.from.col].type = "king"}
      captureMoves == {m \in allMoves : b[m.to.row][m.to.col] # NoPiece}
  IN IF isKingInCheck(b, "black")
     THEN (IF kingMoves # {} THEN kingMoves
           ELSE IF captureMoves # {} THEN captureMoves
           ELSE allMoves)
     ELSE allMoves

\* 526-537: Black has no move.
AINoMoves ==
  /\ aiTimers # <<>>
  /\ LET t == Head(aiTimers)
         mate == checkForCheckmate(t.currentBoard, "black", t.enPassantTarget,
                                   t.castlingRights)
     IN /\ HasNoValidMove(t.currentBoard, "black", t.enPassantTarget, t.castlingRights)
        /\ isCheckmate' = IF mate THEN TRUE ELSE isCheckmate
        /\ isStalemate' = IF mate THEN isStalemate ELSE TRUE
        /\ isDraw' = IF mate THEN isDraw ELSE TRUE
        /\ drawReason' = IF mate THEN drawReason ELSE "Stalemate"
        /\ last' = [last EXCEPT !.verdict = IF mate THEN "checkmate" ELSE "stalemate"]
  /\ aiTimers' = Tail(aiTimers)
  /\ UNCHANGED <<board, selectedSquare, validMoves, currentTurn, capturedPieces,
                 castlingRights, enPassantTarget, promotionSquare, whiteInCheck,
                 blackInCheck, halfMoveClock, positionHistory, events>>

\* 561-715: the chosen move m, one of ChoosableMoves.
AIMoves(m) ==
  /\ aiTimers # <<>>
  /\ LET t == Head(aiTimers)
         b == t.currentBoard
         o == MoveOutcome(b, m.from, m.to, t.currentCastlingRights,
                          t.currentEnPassant, "black")
         newBoard == IF o.movingPiece.type = "pawn" /\ m.to.row = 7
                     THEN [o.newBoard EXCEPT ![m.to.row][m.to.col] = P("queen", "black")]
                     ELSE o.newBoard
         newClock == IF o.movingPiece.type = "pawn" \/ o.isCapture
                     THEN 0 ELSE t.halfMoveClock + 1
         key == boardToString(newBoard, "white", o.newCastlingRights, o.newEnPassant)
         newHistory == Append(t.positionHistory, key)
         v == Verdict(newBoard, "white", newClock, newHistory, key,
                      t.enPassantTarget, t.castlingRights)
         checkWhite == isKingInCheck(newBoard, "white")
         \* 563, 569-572, 651-656: the move is dropped
         dropped == \/ o.movingPiece = NoPiece
                    \/ b[m.to.row][m.to.col].type = "king"
                    \/ isKingInCheck(newBoard, "black")
         \* 634-639 runs before the check of 651
         listed == /\ o.movingPiece # NoPiece
                   /\ b[m.to.row][m.to.col].type # "king"
                   /\ o.isCapture /\ o.capturedPiece # NoPiece
     IN /\ capturedPieces' =
             IF listed
             THEN [capturedPieces EXCEPT !.white = Append(@, o.capturedPiece)]
             ELSE capturedPieces
        /\ IF dropped
           THEN /\ UNCHANGED <<board, castlingRights, enPassantTarget, halfMoveClock,
                               positionHistory, isDraw, drawReason, whiteInCheck,
                               blackInCheck, isCheckmate, isStalemate, currentTurn,
                               events>>
                /\ last' = Did("aiMove", "black", m.from, m.to, o, FALSE, "dropped")
           ELSE /\ board' = newBoard
                /\ castlingRights' = o.newCastlingRights
                /\ enPassantTarget' = o.newEnPassant
                /\ halfMoveClock' = newClock
                /\ positionHistory' = IF v = "fifty" THEN positionHistory ELSE newHistory
                /\ isDraw' = IF v \in {"fifty", "threefold", "material", "stalemate"}
                             THEN TRUE ELSE isDraw
                /\ drawReason' =
                     CASE v = "fifty" -> "Fifty-move rule"
                       [] v = "threefold" -> "Threefold repetition"
                       [] v = "material" -> "Insufficient material"
                       [] v = "stalemate" -> "Stalemate"
                       [] OTHER -> drawReason
                /\ IF v \in {"fifty", "threefold", "material"}
                   THEN UNCHANGED <<whiteInCheck, blackInCheck>>
                   ELSE whiteInCheck' = checkWhite /\ blackInCheck' = FALSE
                /\ isCheckmate' = IF v = "checkmate" THEN TRUE ELSE isCheckmate
                /\ isStalemate' = IF v = "stalemate" THEN TRUE ELSE isStalemate
                /\ currentTurn' = IF v \in {"checkmate", "continue"}
                                  THEN "white" ELSE currentTurn
                /\ events' = events + 1
                /\ last' = Did("aiMove", "black", m.from, m.to,
                                [o EXCEPT !.newBoard = newBoard], TRUE, v)
  /\ aiTimers' = Tail(aiTimers)
  /\ UNCHANGED <<selectedSquare, validMoves, promotionSquare>>

makeAIMove ==
  /\ aiTimers # <<>>
  /\ \/ AINoMoves
     \/ /\ events < MaxEvents
        /\ \E m \in ChoosableMoves(Head(aiTimers)) : AIMoves(m)

\* ------------------------------------------------------------------------
\* handleReset (958-982) and handleResign (984-987)
\* ------------------------------------------------------------------------

handleReset ==
  /\ events < MaxEvents
  /\ board' = initializeBoard
  /\ selectedSquare' = NoPos
  /\ validMoves' = {}
  /\ currentTurn' = "white"
  /\ capturedPieces' = [white |-> <<>>, black |-> <<>>]
  /\ castlingRights' = InitialRights
  /\ enPassantTarget' = NoPos
  /\ promotionSquare' = NoPos
  /\ whiteInCheck' = FALSE
  /\ blackInCheck' = FALSE
  /\ isCheckmate' = FALSE
  /\ isStalemate' = FALSE
  /\ isDraw' = FALSE
  /\ drawReason' = ""
  /\ halfMoveClock' = 0
  /\ positionHistory' = <<>>
  /\ events' = events + 1
  /\ last' = [NoMove EXCEPT !.op = "reset"]
  /\ UNCHANGED aiTimers

\* A resignation that is recorded as a draw as well.
handleResignAsDraw ==
  /\ ~isCheckmate /\ ~isDraw /\ currentTurn = "white"
  /\ isCheckmate' = TRUE
  /\ isDraw' = TRUE
  /\ drawReason' = "White resigned"
  /\ UNCHANGED <<board, selectedSquare, validMoves, currentTurn, capturedPieces,
                 castlingRights, enPassantTarget, promotionSquare, whiteInCheck,
                 blackInCheck, isStalemate, halfMoveClock, positionHistory,
                 aiTimers, events, last>>

\* The Resign button is rendered only under the condition of line 1179.
handleResign ==
  /\ ~isCheckmate /\ ~isDraw /\ currentTurn = "white"
  /\ isCheckmate' = TRUE
  /\ drawReason' = "White resigned"
  /\ UNCHANGED <<board, selectedSquare, validMoves, currentTurn, capturedPieces,
                 castlingRights, enPassantTarget, promotionSquare, whiteInCheck,
                 blackInCheck, isStalemate, isDraw, halfMoveClock, positionHistory,
                 aiTimers, events, last>>

\* ------------------------------------------------------------------------
\* Specification
\* ------------------------------------------------------------------------

\* A board given by its occupied squares, each <<row, col, type, color>>.
Setup(pieces) ==
  [r \in Idx |-> [c \in Idx |->
     IF \E q \in pieces : q[1] = r /\ q[2] = c
     THEN LET q == CHOOSE x \in pieces : x[1] = r /\ x[2] = c IN P(q[3], q[4])
     ELSE NoPiece]]

NoRights ==
  [whiteKingside |-> FALSE, whiteQueenside |-> FALSE,
   blackKingside |-> FALSE, blackQueenside |-> FALSE]

\* The pieces of the initial position that are missing from b, by kind.
Copies(piece, n) == [i \in 1 .. n |-> piece]

CountOn(b, piece) == Cardinality({s \in AllSquares : b[s.row][s.col] = piece})

Missing(b, color) ==
  LET gone(t, n) == Copies(P(t, color), IF CountOn(b, P(t, color)) < n
                                        THEN n - CountOn(b, P(t, color)) ELSE 0)
  IN gone("queen", 1) \o gone("rook", 2) \o gone("bishop", 2)
     \o gone("knight", 2) \o gone("pawn", 8)

\* The state right after construction (81-102).
FreshGame ==
  [board |-> initializeBoard, castlingRights |-> InitialRights,
   enPassantTarget |-> NoPos, aiTimers |-> <<>>, currentTurn |-> "white",
   capturedPieces |-> [white |-> <<>>, black |-> <<>>], promotionSquare |-> NoPos,
   halfMoveClock |-> 0, positionHistory |-> <<>>, events |-> 0, last |-> NoMove]

\* The move that set the en passant target ep of a start position: Black's
\* double step over it (makeAIMove 616-622).
DoubleStepOver(ep) ==
  [NoMove EXCEPT !.op = "aiMove", !.by = "black",
                 !.from = Sq(ep.row - 1, ep.col), !.to = Sq(ep.row + 1, ep.col),
                 !.movingPiece = P("pawn", "black"), !.committed = TRUE,
                 !.verdict = "continue"]

\* The home squares that the castling rights speak of.
UnmovedBy(rights) ==
  (IF rights.whiteKingside THEN {Sq(7, 4), Sq(7, 7)} ELSE {})
    \cup (IF rights.whiteQueenside THEN {Sq(7, 4), Sq(7, 0)} ELSE {})
    \cup (IF rights.blackKingside THEN {Sq(0, 4), Sq(0, 7)} ELSE {})
    \cup (IF rights.blackQueenside THEN {Sq(0, 4), Sq(0, 0)} ELSE {})

\* A game in progress with White to move, as the AI's latest move left it: a
\* pawn move or a capture, so the clock is 0 and the history ends with the
\* key of this position.
MidGame(b, rights, ep) ==
  [board |-> b, castlingRights |-> rights, enPassantTarget |-> ep,
   aiTimers |-> <<>>, currentTurn |-> "white",
   capturedPieces |-> [white |-> Missing(b, "white"), black |-> Missing(b, "black")],
   promotionSquare |-> NoPos, halfMoveClock |-> 0,
   positionHistory |-> <<boardToString(b, "white", rights, ep)>>, events |-> 0,
   last |-> [(IF ep = NoPos THEN NoMove ELSE DoubleStepOver(ep))
               EXCEPT !.quiet = 0,
                      !.played = <<Played(b, "white", rights, ep)>>,
                      !.unmoved = UnmovedBy(rights)]]

\* Black has just played e7-e5; Be2-c4 would mate the king on g8.
DiagonalMateBoard ==
  Setup({<<0, 6, "king", "black">>, <<0, 5, "bishop", "black">>,
         <<0, 7, "rook", "black">>, <<1, 6, "pawn", "black">>,
         <<1, 7, "pawn", "black">>, <<1, 3, "pawn", "black">>,
         <<3, 4, "pawn", "black">>,
         <<7, 6, "king", "white">>, <<6, 4, "bishop", "white">>,
         <<2, 3, "pawn", "white">>})

\* g2-g4 checks the king on h5, whose only escape is h4xg3 en passant.
PawnCheckBoard ==
  Setup({<<3, 7, "king", "black">>, <<4, 7, "pawn", "black">>,
         <<7, 0, "king", "white">>, <<1, 6, "queen", "white">>,
         <<6, 6, "pawn", "white">>, <<5, 7, "pawn", "white">>})

\* The king on a8 has no move; after g2-g4 Black's only move is h4xg3 en passant.
BlockadeBoard ==
  Setup({<<0, 0, "king", "black">>, <<4, 7, "pawn", "black">>,
         <<7, 4, "king", "white">>, <<1, 2, "queen", "white">>,
         <<6, 6, "pawn", "white">>, <<5, 7, "pawn", "white">>})

\* Pawns only.  Black has just played b7-b5 beside the pawn on a5; e2-e4 would
\* pass the pawn on d4; h7-h5 would pass the pawn on g5.
PawnsBoard ==
  Setup({<<0, 4, "king", "black">>, <<4, 3, "pawn", "black">>,
         <<3, 1, "pawn", "black">>, <<1, 7, "pawn", "black">>,
         <<7, 4, "king", "white">>, <<6, 4, "pawn", "white">>,
         <<3, 0, "pawn", "white">>, <<3, 6, "pawn", "white">>})

\* The pawn on a7 can promote on a8 or by capturing on b8; Black has just
\* played c7-c5 past the pawn on b7.
PromotionBoard ==
  Setup({<<2, 6, "king", "black">>, <<0, 1, "knight", "black">>,
         <<1, 1, "pawn", "black">>, <<3, 2, "pawn", "black">>,
         <<7, 4, "king", "white">>, <<1, 0, "pawn", "white">>})

\* The king on a1 has no move; a piece chosen for the pawn on g8 leaves it none.
CorneredKingBoard ==
  Setup({<<7, 0, "king", "black">>,
         <<6, 2, "king", "white">>, <<5, 2, "knight", "white">>,
         <<1, 6, "pawn", "white">>})

\* Kings and rooks on their home squares, all four castling rights intact.
CastlingBoard ==
  Setup({<<0, 4, "king", "black">>, <<0, 0, "rook", "black">>,
         <<0, 7, "rook", "black">>, <<1, 0, "pawn", "black">>,
         <<1, 7, "pawn", "black">>,
         <<7, 4, "king", "white">>, <<7, 0, "rook", "white">>,
         <<7, 7, "rook", "white">>, <<6, 0, "pawn", "white">>,
         <<6, 7, "pawn", "white">>})

\* White has just played Kd1-e2 and pressed Reset before the AI's timer fired:
\* the new game starts with the callback of the old one still pending.
RookEndingBoard ==
  Setup({<<4, 7, "king", "black">>, <<4, 0, "rook", "black">>,
         <<6, 4, "king", "white">>, <<7, 6, "rook", "white">>})

ResetDuringAIDelay ==
  [board |-> initializeBoard, castlingRights |-> InitialRights,
   enPassantTarget |-> NoPos, currentTurn |-> "white", halfMoveClock |-> 0,
   capturedPieces |-> [white |-> <<>>, black |-> <<>>], promotionSquare |-> NoPos,
   positionHistory |-> <<>>, events |-> 0, last |-> NoMove,
   aiTimers |-> <<[currentBoard |-> RookEndingBoard,
                   currentCastlingRights |-> NoRights,
                   currentEnPassant |-> NoPos,
                   enPassantTarget |-> NoPos,
                   castlingRights |-> NoRights,
                   halfMoveClock |-> 0,
                   positionHistory |-> <<>>]>>]

\* An ending of king and rook each: the rooks on c3 and f6 attack neither a
\* king nor each other, the kings stand on wk and bk.
RooksBoard(wk, bk) ==
  Setup({<<bk.row, bk.col, "king", "black">>, <<2, 5, "rook", "black">>,
         <<wk.row, wk.col, "king", "white">>, <<5, 2, "rook", "white">>})

\* The board of RooksBoard(wk, bk) as a position with the given side to move.
RooksPosition(wk, bk, turn) == Played(RooksBoard(wk, bk), turn, NoRights, NoPos)

RooksKey(wk, bk, turn) == boardToString(RooksBoard(wk, bk), turn, NoRights, NoPos)

\* The AI's latest move in the games below, Kg8-h8 (makeAIMove 561-715).
KingToCorner ==
  [NoMove EXCEPT !.op = "aiMove", !.by = "black",
                 !.from = Sq(0, 6), !.to = Sq(0, 7),
                 !.movingPiece = P("king", "black"), !.committed = TRUE,
                 !.verdict = "continue", !.unmoved = {}]

\* A long game with White to move: the wk and bk of RooksBoard are a1 and h8.
\* The game has seen `quiet` half-moves since the latest pawn move or capture
\* and the clock stands at `clock`.  The clock is what makeAIMove last stored
\* (662-665): one more than the clock of the render before White's move, that
\* is, the number of moves the AI has made since its own latest pawn move or
\* capture.  The keys of the positions that preceded the latest capture are
\* left out of the history: no later position equals one of them.
LongGame(clock, quiet) ==
  [MidGame(RooksBoard(Sq(7, 0), Sq(0, 7)), NoRights, NoPos)
     EXCEPT !.halfMoveClock = clock,
            !.last = [KingToCorner
                        EXCEPT !.quiet = quiet,
                               !.played = <<RooksPosition(Sq(7, 0), Sq(0, 7), "white")>>]]

\* White took a pawn on c3 and the AI answered Kg8-h8: the AI's 99th move in
\* a row that is neither a pawn move nor a capture.
AfterLateCapture == LongGame(99, 1)

\* 99 half-moves without pawn move or capture, begun and ended by the AI: 50
\* of them are the AI's.
NinetyNineQuiet == LongGame(50, 99)

\* The kings have shuffled Ka2-b1 Kh8-g8, Kb1-a1 Kg8-h8, Ka1-b1 Kh8-g8,
\* Kb1-a1 Kg8-h8 since the AI's capture on f6.  The history holds what
\* makeAIMove stored (674-677): the keys of the positions after the AI's moves.
Shuffle ==
  LET a1 == Sq(7, 0)  a2 == Sq(6, 0)  b1 == Sq(7, 1)
      g8 == Sq(0, 6)  h8 == Sq(0, 7)
  IN [MidGame(RooksBoard(a1, h8), NoRights, NoPos)
        EXCEPT !.halfMoveClock = 4,
               !.positionHistory =
                  <<RooksKey(a2, h8, "white"), RooksKey(b1, g8, "white"),
                    RooksKey(a1, h8, "white"), RooksKey(b1, g8, "white"),
                    RooksKey(a1, h8, "white")>>,
               !.last = [KingToCorner
                           EXCEPT !.quiet = 8,
                                  !.played =
                                     <<RooksPosition(a2, h8, "white"),
                                       RooksPosition(b1, h8, "black"),
                                       RooksPosition(b1, g8, "white"),
                                       RooksPosition(a1, g8, "black"),
                                       RooksPosition(a1, h8, "white"),
                                       RooksPosition(b1, h8, "black"),
                                       RooksPosition(b1, g8, "white"),
                                       RooksPosition(a1, g8, "black"),
                                       RooksPosition(a1, h8, "white")>>]]

\* Rooks that have changed corners.  White's rook from h1 stands on a1, where
\* it took the piece that had taken the rook of a1; Black's rook from h8 has
\* just taken a pawn on a5, coming from h5.  Neither king and no rook has left
\* a8, so the rights that 766-781 and 599-614 have left are the queenside ones.
ChangedCornersBoard ==
  Setup({<<0, 4, "king", "black">>, <<0, 0, "rook", "black">>,
         <<3, 0, "rook", "black">>,
         <<7, 4, "king", "white">>, <<7, 0, "rook", "white">>})

QueensideRights ==
  [whiteKingside |-> FALSE, whiteQueenside |-> TRUE,
   blackKingside |-> FALSE, blackQueenside |-> TRUE]

ChangedCorners ==
  [MidGame(ChangedCornersBoard, QueensideRights, NoPos)
     EXCEPT !.last = [NoMove EXCEPT
                        !.op = "aiMove", !.by = "black",
                        !.from = Sq(3, 7), !.to = Sq(3, 0),
                        !.movingPiece = P("rook", "black"),
                        !.capturedPiece = P("pawn", "white"),
                        !.isCapture = TRUE, !.committed = TRUE,
                        !.verdict = "continue",
                        !.played = <<Played(ChangedCornersBoard, "white",
                                            QueensideRights, NoPos)>>,
                        !.unmoved = {Sq(7, 4), Sq(0, 4), Sq(0, 0)}]]

\* The position of the game that the next start abandons: White has just
\* played Kd6-c7, and the only move of Black is Ka8-a7.
LoneKingBoard ==
  Setup({<<0, 0, "king", "black">>,
         <<1, 2, "king", "white">>, <<6, 7, "pawn", "white">>})

\* The initial position after e2-e4.
KingPawnBoard ==
  [initializeBoard EXCEPT ![6][4] = NoPiece, ![4][4] = P("pawn", "white")]

\* White has played Kd6-c7, pressed Reset and opened the new game with e2-e4,
\* all before the first timer fired: the callback of the old game and that of
\* the new one are both pending.
MoveDuringAIDelay ==
  [board |-> KingPawnBoard, castlingRights |-> InitialRights,
   enPassantTarget |-> Sq(5, 4), currentTurn |-> "black", halfMoveClock |-> 0,
   capturedPieces |-> [white |-> <<>>, black |-> <<>>], promotionSquare |-> NoPos,
   events |-> 0,
   positionHistory |-> <<boardToString(KingPawnBoard, "black", InitialRights, Sq(5, 4))>>,
   last |-> [NoMove EXCEPT
               !.op = "move", !.by = "white",
               !.from = Sq(6, 4), !.to = Sq(4, 4),
               !.movingPiece = P("pawn", "white"), !.committed = TRUE,
               !.verdict = "continue",
               !.played = Append(@, Played(KingPawnBoard, "black", InitialRights,
                                           Sq(5, 4)))],
   aiTimers |-> <<[currentBoard |-> LoneKingBoard,
                   currentCastlingRights |-> NoRights,
                   currentEnPassant |-> NoPos,
                   enPassantTarget |-> NoPos,
                   castlingRights |-> NoRights,
                   halfMoveClock |-> 0,
                   positionHistory |-> <<>>],
                  [currentBoard |-> KingPawnBoard,
                   currentCastlingRights |-> InitialRights,
                   currentEnPassant |-> Sq(5, 4),
                   enPassantTarget |-> NoPos,
                   castlingRights |-> InitialRights,
                   halfMoveClock |-> 0,
                   positionHistory |-> <<>>]>>]

\* LoneKingBoard after Ka8-a7, with the pawn on h7 instead of h2 and then
\* moved to h8.
PawnArrivedBoard ==
  Setup({<<1, 0, "king", "black">>,
         <<1, 2, "king", "white">>, <<0, 7, "pawn", "white">>})

\* As in MoveDuringAIDelay two callbacks were pending.  The first has fired
\* and played Ka8-a7 for the old game; on that board White has moved the pawn
\* h7-h8 and not yet chosen a piece, and the callback of e2-e4 is still
\* pending.  These are two events, so the start has one event left.
PromotionDuringAIDelay ==
  [board |-> PawnArrivedBoard, castlingRights |-> NoRights,
   enPassantTarget |-> NoPos, currentTurn |-> "white", halfMoveClock |-> 1,
   capturedPieces |-> [white |-> <<>>, black |-> <<>>],
   promotionSquare |-> Sq(0, 7),
   positionHistory |->
     <<boardToString([PawnArrivedBoard EXCEPT ![0][7] = NoPiece,
                                              ![1][7] = P("pawn", "white")],
                     "white", NoRights, NoPos)>>,
   events |-> MaxEvents - 1,
   last |-> [NoMove EXCEPT
               !.op = "pawnToLastRow", !.by = "white",
               !.from = Sq(1, 7), !.to = Sq(0, 7),
               !.movingPiece = P("pawn", "white"), !.committed = TRUE,
               !.verdict = "pending",
               !.played = <<Played([PawnArrivedBoard EXCEPT ![0][7] = NoPiece,
                                                            ![1][7] = P("pawn", "white")],
                                   "white", NoRights, NoPos)>>,
               !.unmoved = {}],
   aiTimers |-> <<[currentBoard |-> KingPawnBoard,
                   currentCastlingRights |-> InitialRights,
                   currentEnPassant |-> Sq(5, 4),
                   enPassantTarget |-> NoPos,
                   castlingRights |-> InitialRights,
                   halfMoveClock |-> 0,
                   positionHistory |-> <<>>]>>]

Starts ==
  {FreshGame,
   MidGame(DiagonalMateBoard, NoRights, Sq(2, 4)),
   MidGame(PawnCheckBoard, NoRights, NoPos),
   MidGame(BlockadeBoard, NoRights, NoPos),
   MidGame(PawnsBoard, NoRights, Sq(2, 1)),
   MidGame(PromotionBoard, NoRights, Sq(2, 2)),
   MidGame(CorneredKingBoard, NoRights, NoPos),
   MidGame(CastlingBoard, InitialRights, NoPos),
   AfterLateCapture, NinetyNineQuiet, Shuffle, ChangedCorners,
   ResetDuringAIDelay, MoveDuringAIDelay, PromotionDuringAIDelay}

\* The state after construction (81-101), with the fields of the record s.
InitAt(s) ==
  /\ board = s.board
  /\ selectedSquare = NoPos
  /\ validMoves = {}
  /\ currentTurn = s.currentTurn
  /\ capturedPieces = s.capturedPieces
  /\ castlingRights = s.castlingRights
  /\ enPassantTarget = s.enPassantTarget
  /\ promotionSquare = s.promotionSquare
  /\ whiteInCheck = isKingInCheck(s.board, "white")
  /\ blackInCheck = FALSE
  /\ isCheckmate = FALSE
  /\ isStalemate = FALSE
  /\ isDraw = FALSE
  /\ drawReason = ""
  /\ halfMoveClock = s.halfMoveClock
  /\ positionHistory = s.positionHistory
  /\ aiTimers = s.aiTimers
  /\ events = s.events
  /\ last = s.last

Init == \E s \in Starts : InitAt(s)

Next ==
  \/ handleSquareClick
  \/ \E pieceType \in PromotionKinds : handlePromotion(pieceType)
  \/ makeAIMove
  \/ handleReset
  \/ handleResign

Spec == Init /\ [][Next]_vars

\* The oldest pending callback is run: of all steps only those of makeAIMove
\* take the head off the queue.  The bound on the events is that of AIMoves.
TimerFires ==
  /\ aiTimers # <<>>
  /\ events < MaxEvents
  /\ aiTimers' = Tail(aiTimers)

\* Games near their end, and a promotion with a callback pending, under the
\* scheduling of the browser: a callback passed to setTimeout (883-885,
\* 953-955) is run once its delay of 500 ms is over, so it is not put off for
\* ever.
InitLive ==
  Init /\ (board \in {CorneredKingBoard, PromotionBoard} \/ promotionSquare # NoPos)

SpecLive == InitLive /\ [][Next]_vars /\ WF_aiTimers(TimerFires)

\* Both sides have a pawn one step from its last row: White's on a7, Black's
\* on a2.
TwoPromotionsBoard ==
  Setup({<<0, 7, "king", "black">>, <<6, 0, "pawn", "black">>,
         <<7, 7, "king", "white">>, <<1, 0, "pawn", "white">>})

\* The games in which pawns promote: the one above, and the promotion that
\* waits while a callback is pending.
InitPromotion ==
  \E s \in {MidGame(TwoPromotionsBoard, NoRights, NoPos), PromotionDuringAIDelay} :
    InitAt(s)

SpecPromotion == InitPromotion /\ [][Next]_vars

\* ------------------------------------------------------------------------
\* getValidMoves as a function of its inputs
\* ------------------------------------------------------------------------

\* The inputs: every start position, and every position one White move after
\* a start position, each with its own en passant target and castling rights.
Position(b, ep, rights) == [board |-> b, enPassantTarget |-> ep, castlingRights |-> rights]

PositionsAfterWhite(s) ==
  {LET o == MoveOutcome(s.board, mv.from, mv.to, s.castlingRights,
                        s.enPassantTarget, "white")
   IN Position(o.newBoard, o.newEnPassant, o.newCastlingRights) :
     mv \in UNION {{[from |-> f, to |-> m] :
                      m \in getValidMoves(f, s.board, s.enPassantTarget, s.castlingRights)} :
                   f \in PiecesOf(s.board, "white")}}

\* ChangedCornersBoard with a pawn on h2, after the AI's Ra5xa1: a rook of
\* Black stands on the corner of a castling right that White still has.
CornerTakenBoard ==
  Setup({<<0, 4, "king", "black">>, <<0, 0, "rook", "black">>,
         <<7, 0, "rook", "black">>,
         <<7, 4, "king", "white">>, <<6, 7, "pawn", "white">>})

Positions ==
  {Position(s.board, s.enPassantTarget, s.castlingRights) : s \in Starts}
    \cup UNION {PositionsAfterWhite(s) : s \in Starts}
    \cup {Position(CornerTakenBoard, NoPos, QueensideRights)}

InitValid ==
  \E p \in Positions :
    /\ board = p.board
    /\ enPassantTarget = p.enPassantTarget
    /\ castlingRights = p.castlingRights
    /\ selectedSquare = NoPos
    /\ validMoves = {}
    /\ currentTurn = "white"
    /\ capturedPieces = [white |-> <<>>, black |-> <<>>]
    /\ promotionSquare = NoPos
    /\ whiteInCheck = FALSE
    /\ blackInCheck = FALSE
    /\ isCheckmate = FALSE
    /\ isStalemate = FALSE
    /\ isDraw = FALSE
    /\ drawReason = ""
    /\ halfMoveClock = 0
    /\ positionHistory = <<>>
    /\ aiTimers = <<>>
    /\ events = 0
    /\ last = NoMove

\* getValidMoves(pos, board) for an occupied square of either colour; the
\* square and the result are kept in selectedSquare and validMoves.
ValidMovesOf(pos) ==
  /\ board[pos.row][pos.col] # NoPiece
  /\ selectedSquare' = pos
  /\ validMoves' = getValidMoves(pos, board, enPassantTarget, castlingRights)
  /\ UNCHANGED <<gameVars, aiTimers, events, last>>

NextValid == \E pos \in AllSquares : ValidMovesOf(pos)

SpecValid == InitValid /\ [][NextValid]_vars

\* ------------------------------------------------------------------------
\* boardToString as a function of its inputs
\* ------------------------------------------------------------------------

MaxKeys == 2

\* King and knight of White on two of the squares e1, g1 and f3.
KnightBoard(k, n) ==
  Setup({<<0, 4, "king", "black">>, <<1, 0, "pawn", "black">>,
         <<k.row, k.col, "king", "white">>, <<n.row, n.col, "knight", "white">>})

\* The inputs: the knight boards with either side to move, and four start
\* positions with their castling rights and en passant targets.
KeyInputs ==
  {Played(KnightBoard(k, n), turn, NoRights, NoPos) :
     <<k, n>> \in {<<x, y>> \in {Sq(7, 4), Sq(7, 6), Sq(5, 5)}
                                  \X {Sq(7, 4), Sq(7, 6), Sq(5, 5)} : x # y},
     turn \in PieceColor}
    \cup {Played(initializeBoard, "white", InitialRights, NoPos),
          Played(CastlingBoard, "white", InitialRights, NoPos),
          Played(PawnsBoard, "white", NoRights, Sq(2, 1)),
          Played(PawnsBoard, "white", NoRights, NoPos)}

\* The program holds the position p.
Holds(p) ==
  /\ board = p.board
  /\ currentTurn = p.turn
  /\ castlingRights = p.castlingRights
  /\ enPassantTarget = p.enPassantTarget

InitKey ==
  /\ \E p \in KeyInputs : Holds(p)
  /\ selectedSquare = NoPos
  /\ validMoves = {}
  /\ capturedPieces = [white |-> <<>>, black |-> <<>>]
  /\ promotionSquare = NoPos
  /\ whiteInCheck = FALSE
  /\ blackInCheck = FALSE
  /\ isCheckmate = FALSE
  /\ isStalemate = FALSE
  /\ isDraw = FALSE
  /\ drawReason = ""
  /\ halfMoveClock = 0
  /\ positionHistory = <<>>
  /\ aiTimers = <<>>
  /\ events = 0
  /\ last = [NoMove EXCEPT !.played = <<>>]

\* boardToString(board, turn, rights, enPassant) of the position held; the key
\* goes to the history as in 839-842, the input is kept beside it, and the
\* program goes on to hold the position q.
KeyOfPosition(q) ==
  /\ Len(positionHistory) < MaxKeys
  /\ positionHistory' =
       Append(positionHistory,
              boardToString(board, currentTurn, castlingRights, enPassantTarget))
  /\ last' = [last EXCEPT !.played =
                 Append(@, Played(board, currentTurn, castlingRights, enPassantTarget))]
  /\ board' = q.board
  /\ currentTurn' = q.turn
  /\ castlingRights' = q.castlingRights
  /\ enPassantTarget' = q.enPassantTarget
  /\ UNCHANGED <<selectedSquare, validMoves, capturedPieces, promotionSquare,
                 whiteInCheck, blackInCheck, isCheckmate, isStalemate, isDraw,
                 drawReason, halfMoveClock, aiTimers, events>>

NextKey == \E q \in KeyInputs : KeyOfPosition(q)

SpecKey == InitKey /\ [][NextKey]_vars

\* ------------------------------------------------------------------------
\* hasInsufficientMaterial as a function of its input
\* ------------------------------------------------------------------------

\* Where the pieces beside the kings stand: c4 and d5 are of one square
\* colour, d4 of the other.
MaterialSquares == {Sq(4, 2), Sq(3, 3), Sq(4, 3)}

MaterialKinds == {"queen", "rook", "bishop", "knight", "pawn"}

\* The kings on e1 and e8 and the given pieces, <<row, col, type, color>> each.
MaterialBoard(pieces) ==
  Setup({<<0, 4, "king", "black">>, <<7, 4, "king", "white">>} \cup pieces)

\* The inputs: the two kings with no, one or two more pieces.
MaterialInputs ==
  LET one == {<<q.row, q.col, t, c>> :
                q \in MaterialSquares, t \in MaterialKinds, c \in PieceColor}
  IN {MaterialBoard({})}
       \cup {MaterialBoard({x}) : x \in one}
       \cup {MaterialBoard({x, y}) :
               <<x, y>> \in {z \in one \X one : z[1][1] # z[2][1] \/ z[1][2] # z[2][2]}}

InitMaterial ==
  /\ board \in MaterialInputs
  /\ currentTurn = "white"
  /\ castlingRights = NoRights
  /\ enPassantTarget = NoPos
  /\ selectedSquare = NoPos
  /\ validMoves = {}
  /\ capturedPieces = [white |-> <<>>, black |-> <<>>]
  /\ promotionSquare = NoPos
  /\ whiteInCheck = FALSE
  /\ blackInCheck = FALSE
  /\ isCheckmate = FALSE
  /\ isStalemate = FALSE
  /\ isDraw = FALSE
  /\ drawReason = ""
  /\ halfMoveClock = 0
  /\ positionHistory = <<>>
  /\ aiTimers = <<>>
  /\ events = 0
  /\ last = NoMove

\* hasInsufficientMaterial(board), recorded as in 852-857.
MaterialOfBoard ==
  /\ last.verdict = "none"
  /\ isDraw' = hasInsufficientMaterial(board)
  /\ drawReason' = IF hasInsufficientMaterial(board)
                   THEN "Insufficient material" ELSE drawReason
  /\ last' = [last EXCEPT !.verdict = IF hasInsufficientMaterial(board)
                                      THEN "material" ELSE "continue"]
  /\ UNCHANGED <<board, selectedSquare, validMoves, currentTurn, capturedPieces,
                 castlingRights, enPassantTarget, promotionSquare, whiteInCheck,
                 blackInCheck, isCheckmate, isStalemate, halfMoveClock,
                 positionHistory, aiTimers, events>>

NextMaterial == MaterialOfBoard

SpecMaterial == InitMaterial /\ [][NextMaterial]_vars

\* ------------------------------------------------------------------------
\* Properties
\* ------------------------------------------------------------------------

Kings(b, color) == {s \in AllSquares : b[s.row][s.col] = P("king", color)}

\* C1: in every reachable state the board holds exactly one white king and
\* exactly one black king.
C1_OneKingEach ==
  Cardinality(Kings(board, "white")) = 1 /\ Cardinality(Kings(board, "black")) = 1

\* The AI has castled, and both kings are still there.
C1_Witness ==
  /\ last.committed /\ last.by = "black" /\ last.isCastling
  /\ C1_OneKingEach

\* C2: after a committed move the king of the side that moved is not attacked
\* on the committed board.
C2_MoverKingSafe ==
  (last.committed /\ last.op \in {"move", "pawnToLastRow", "promotion", "aiMove"})
     => ~isKingInCheck(board, last.by)

\* The scratch board for the move pos -> move, square by square: the moved
\* piece on move, pos empty, the en passant pawn gone, the castling rook
\* relocated.
C3_Scratch(pos, move, b, ep) ==
  LET piece == b[pos.row][pos.col]
      enPassant == piece.type = "pawn" /\ ep = move
      castle == piece.type = "king" /\ Abs(move.col - pos.col) = 2
      rookFrom == IF move.col > pos.col THEN 7 ELSE 0
      rookTo == IF move.col > pos.col THEN 5 ELSE 3
  IN [r \in Idx |-> [c \in Idx |->
        IF r = move.row /\ c = move.col THEN piece
        ELSE IF r = pos.row /\ c = pos.col THEN NoPiece
        ELSE IF enPassant /\ r = pos.row /\ c = move.col THEN NoPiece
        ELSE IF castle /\ r = pos.row /\ c = rookTo THEN b[pos.row][rookFrom]
        ELSE IF castle /\ r = pos.row /\ c = rookFrom THEN NoPiece
        ELSE b[r][c]]]

C3_Kept(pos, move, b, ep) ==
  /\ b[move.row][move.col].type # "king"
  /\ ~isKingInCheck(C3_Scratch(pos, move, b, ep), b[pos.row][pos.col].color)

\* C3: getValidMoves returns exactly the pseudo-legal destinations that hold
\* no king and leave the mover's king unattacked on the scratch board; every
\* pseudo-legal destination it drops holds a king or leaves the king attacked.
C3_ValidMovesExact ==
  selectedSquare # NoPos
    => LET pseudo == getPseudoLegalMoves(selectedSquare, board, enPassantTarget,
                                          castlingRights)
       IN /\ validMoves \subseteq pseudo
          /\ \A m \in pseudo :
               m \in validMoves
                 <=> C3_Kept(selectedSquare, m, board, enPassantTarget)

\* An en passant capture is kept because it removes the pawn that gives check.
C3_Witness ==
  /\ selectedSquare # NoPos
  /\ enPassantTarget # NoPos
  /\ enPassantTarget \in validMoves
  /\ isKingInCheck(board, board[selectedSquare.row][selectedSquare.col].color)

\* The handlers' records of a piece move, and of a completed move.
MoveOps == {"move", "aiMove", "pawnToLastRow"}

CompletedOps == {"move", "aiMove", "promotion"}

\* This step applies a piece move to the board.
MoveApplied == events' = events + 1 /\ last'.op \in MoveOps

IsDoubleStep(l) ==
  /\ l.committed
  /\ l.op \in {"move", "aiMove"}
  /\ l.movingPiece.type = "pawn"
  /\ Abs(l.to.row - l.from.row) = 2

Skipped(l) == Sq((l.from.row + l.to.row) \div 2, l.from.col)

\* The side to move after the latest applied move.
SideToMove == Opponent(last.by)

\* The pawns of color standing beside square s.
PawnsBeside(b, s, color) ==
  {n \in {Sq(s.row, s.col - 1), Sq(s.row, s.col + 1)} :
     isValidSquare(n.row, n.col) /\ b[n.row][n.col] = P("pawn", color)}

\* The board after the pawn on n captures en passant onto target.
AfterEnPassant(b, n, target) ==
  [r \in Idx |-> [c \in Idx |->
     IF r = target.row /\ c = target.col THEN b[n.row][n.col]
     ELSE IF r = n.row /\ (c = n.col \/ c = target.col) THEN NoPiece
     ELSE b[r][c]]]

\* C4: a diagonal pawn move that is applied, or offered to White or collected
\* for the AI, lands on an enemy piece or on the square skipped by the enemy
\* double step of the immediately preceding ply.
C4_DiagonalTarget(b, m, color) ==
  \/ b[m.row][m.col].color = Opponent(color)
  \/ IsDoubleStep(last) /\ last.by = Opponent(color) /\ Skipped(last) = m

C4_Offered ==
  /\ (selectedSquare # NoPos
        /\ board[selectedSquare.row][selectedSquare.col] = P("pawn", "white"))
       => \A m \in validMoves :
            m.col # selectedSquare.col => C4_DiagonalTarget(board, m, "white")
  /\ aiTimers # <<>>
       => LET t == Head(aiTimers)
          IN \A m \in AllMoves(t) :
               (t.currentBoard[m.from.row][m.from.col].type = "pawn"
                  /\ m.to.col # m.from.col)
                 => C4_DiagonalTarget(t.currentBoard, m.to, "black")

C4_Applied ==
  (MoveApplied /\ last'.movingPiece.type = "pawn" /\ last'.to.col # last'.from.col)
    => \/ ~last'.isEnPassant /\ last'.capturedPiece.color = Opponent(last'.by)
       \/ /\ IsDoubleStep(last) /\ last.by = Opponent(last'.by)
          /\ Skipped(last) = last'.to

C4_DiagonalPawnMoves == [][C4_Applied]_vars /\ []C4_Offered

\* C5: right after a double step that lands beside an enemy pawn, the en
\* passant capture by that pawn is in the legal-move set of the side to move
\* whenever it leaves that side's king safe: in what White is offered for the
\* pawn, and in the moves makeAIMove collects for Black.
C5_Available(b, ep, rights, color) ==
  \A n \in PawnsBeside(b, last.to, color) :
    ~isKingInCheck(AfterEnPassant(b, n, Skipped(last)), color)
      => Skipped(last) \in getValidMoves(n, b, ep, rights)

C5_EnPassantOffered ==
  (IsDoubleStep(last) /\ last.verdict = "continue")
    => /\ (last.by = "black" /\ ~isCheckmate /\ ~isDraw)
            => C5_Available(board, enPassantTarget, castlingRights, "white")
       /\ (last.by = "white" /\ aiTimers # <<>>)
            => LET t == aiTimers[Len(aiTimers)]
               IN t.currentBoard = board
                    => C5_Available(t.currentBoard, t.enPassantTarget,
                                    t.castlingRights, "black")

\* C6: the stored en passant target is empty, or it is the square skipped by
\* the double step that was the immediately preceding applied move; so every
\* other applied move, a pawn move ending in promotion included, leaves it
\* empty.
C6_EnPassantTargetFresh ==
  \/ enPassantTarget = NoPos
  \/ IsDoubleStep(last) /\ enPassantTarget = Skipped(last)

\* C7: an applied en passant capture puts the capturing pawn on the target,
\* removes the enemy pawn standing beside the capturer's start square in the
\* target's column, and changes no other square.
C7_Applied ==
  (MoveApplied /\ last'.isEnPassant)
    => LET b == IF last'.by = "white" THEN board ELSE Head(aiTimers).currentBoard
           from == last'.from
           to == last'.to
       IN /\ b[from.row][to.col] = P("pawn", Opponent(last'.by))
          /\ board' = AfterEnPassant(b, from, to)
          /\ board'[to.row][to.col] = P("pawn", last'.by)

C7_EnPassantCapture == [][C7_Applied]_vars

\* C8: after a completed move that leaves the side to move in check without a
\* legal move in the resulting position, the game is recorded as checkmate and
\* not as a draw.
C8_CheckmateRecorded ==
  (last.committed /\ last.op \in CompletedOps /\ ~(isCheckmate /\ ~isDraw))
    => ~(/\ isKingInCheck(board, SideToMove)
         /\ HasNoValidMove(board, SideToMove, enPassantTarget, castlingRights))

\* C9: checkmate is recorded by move application only when the side to move is
\* in check and has no legal move, judged with the en passant target and
\* castling rights of the resulting position.
C9_CheckmateOnlyWhenMated ==
  (isCheckmate /\ drawReason # "White resigned")
    => /\ last.committed
       /\ isKingInCheck(board, SideToMove)
       /\ HasNoValidMove(board, SideToMove, enPassantTarget, castlingRights)

\* C10: stalemate is recorded only when the side to move is not in check and
\* has no legal move, judged with the position's own en passant target and
\* castling rights; and from a position where that holds after a completed
\* move, with no draw recorded, no further move is applied.
C10_Stalemated ==
  /\ last.committed /\ last.op \in CompletedOps
  /\ ~isKingInCheck(board, SideToMove)
  /\ HasNoValidMove(board, SideToMove, enPassantTarget, castlingRights)

C10_RecordedOnlyWhenStalemated ==
  (isDraw /\ drawReason = "Stalemate") => C10_Stalemated

C10_NoMoveAfterStalemate ==
  (MoveApplied /\ ~isDraw) => ~C10_Stalemated

C10_Stalemate == []C10_RecordedOnlyWhenStalemated /\ [][C10_NoMoveAfterStalemate]_vars

\* ------------------------------------------------------------------------
\* The half-move clock and the position history
\* ------------------------------------------------------------------------

\* This step applies a move that stays on the board.
MoveCommitted == MoveApplied /\ last'.committed

\* C12: every applied move by either side sets the half-move clock to 0 if it
\* is a pawn move (a promoting one included) or a capture, and otherwise to
\* exactly one more than the value the clock had immediately before the move.
C12_ClockAfterMove ==
  MoveCommitted =>
    halfMoveClock' = IF last'.movingPiece.type = "pawn" \/ last'.isCapture
                     THEN 0 ELSE halfMoveClock + 1

C12_ClockStep == [][C12_ClockAfterMove]_vars

\* The key of the position that this step leaves on the board.
ResultingKey ==
  boardToString(board', Opponent(last'.by), castlingRights', enPassantTarget')

\* This step completes a move: a committed move that is no pawn arrival on the
\* last row, or the choice of the promotion piece.
MoveCompleted ==
  \/ MoveCommitted /\ last'.op \in {"move", "aiMove"}
  \/ last.op = "pawnToLastRow" /\ last'.op = "promotion"

\* C14: the position history gains exactly one entry, the key of the resulting
\* position, with every completed move of either side (a move completed by
\* promotion included), and changes in no other step but a reset.
C14_HistoryAfterStep ==
  IF MoveCompleted
  THEN positionHistory' = Append(positionHistory, ResultingKey)
  ELSE last'.op # "reset" => positionHistory' = positionHistory

C14_HistoryGrows == [][C14_HistoryAfterStep]_vars

\* ------------------------------------------------------------------------
\* Draws by the fifty-move rule and by repetition
\* ------------------------------------------------------------------------

\* The latest step completed a move of the game.
AfterCompletedMove == last.committed /\ last.op \in CompletedOps

FiftyMoveDrawRecorded == isDraw /\ drawReason = "Fifty-move rule"

\* The 100th half-move in a row without pawn move or capture has been played.
C11_HundredQuiet == AfterCompletedMove /\ last.quiet = 100

\* C11: the fifty-move draw is recorded on the 100th consecutive applied
\* half-move, White's and the AI's both counted, that is neither a pawn move
\* nor a capture, and no move records it while fewer than 100 such half-moves
\* have been played since the latest pawn move or capture.
C11_FiftyMoveDraw ==
  /\ C11_HundredQuiet => FiftyMoveDrawRecorded
  /\ AfterCompletedMove /\ last.verdict = "fifty" => last.quiet >= 100

\* How often the position on the board has occurred in the game so far.
Occurrences == CountOf(last.played, last.played[Len(last.played)])

ThreefoldDrawRecorded == isDraw /\ drawReason = "Threefold repetition"

\* The latest move has brought about a position for the third time.
C13_ThirdOccurrence ==
  AfterCompletedMove /\ Occurrences = 3 /\ ~FiftyMoveDrawRecorded

\* C13: the draw by threefold repetition is recorded at the moment a position
\* (pieces, side to move, castling rights, en passant target) occurs for the
\* third time, with White or with Black to move, and a move that brings about
\* a first or a second occurrence does not record it.
C13_ThreefoldDraw ==
  /\ C13_ThirdOccurrence => ThreefoldDrawRecorded
  /\ AfterCompletedMove /\ last.verdict = "threefold" => Occurrences >= 3

\* C15: boardToString is injective: two inputs yield the same key only if they
\* agree on the piece of every square, on the side to move, on the four
\* castling rights and on the en passant square.
C15_KeyInjective ==
  \A i, j \in 1 .. Len(positionHistory) :
    positionHistory[i] = positionHistory[j] => last.played[i] = last.played[j]

\* The squares of the pieces other than the kings.
OtherPieces ==
  {s \in AllSquares : board[s.row][s.col] # NoPiece /\ board[s.row][s.col].type # "king"}

\* King v king; king and one bishop or one knight v king; king and bishop v
\* king and bishop, the bishops on squares of one parity.
C16_DrawnMaterial ==
  \/ OtherPieces = {}
  \/ /\ Cardinality(OtherPieces) = 1
     /\ \A s \in OtherPieces : board[s.row][s.col].type \in {"bishop", "knight"}
  \/ /\ Cardinality(OtherPieces) = 2
     /\ \A s \in OtherPieces : board[s.row][s.col].type = "bishop"
     /\ \E s, t \in OtherPieces :
          /\ board[s.row][s.col].color # board[t.row][t.col].color
          /\ (s.row + s.col) % 2 = (t.row + t.col) % 2

\* C16: hasInsufficientMaterial(board) is true exactly for king v king, king
\* and a single bishop or knight v king, and king and bishop v king and bishop
\* (one bishop a side) on squares of the same parity; false for all else.
C16_InsufficientMaterial ==
  last.verdict # "none" => (isDraw <=> C16_DrawnMaterial)

\* ------------------------------------------------------------------------
\* Castling
\* ------------------------------------------------------------------------

HomeRow(color) == IF color = "white" THEN 7 ELSE 0

\* The castling right of that colour towards the rook of column corner.
RightOf(rights, color, corner) ==
  IF color = "white"
  THEN (IF corner = 7 THEN rights.whiteKingside ELSE rights.whiteQueenside)
  ELSE (IF corner = 7 THEN rights.blackKingside ELSE rights.blackQueenside)

\* The columns between the king and the rook of column corner.
Between(corner) == IF corner = 7 THEN {5, 6} ELSE {1, 2, 3}

\* The columns of the king's transit and landing squares.
KingPath(corner) == IF corner = 7 THEN {5, 6} ELSE {3, 2}

\* The conditions of castling towards the rook of column corner.
MayCastle(color, corner) ==
  /\ RightOf(castlingRights, color, corner)
  /\ \A c \in Between(corner) : board[HomeRow(color)][c] = NoPiece
  /\ board[HomeRow(color)][corner] = P("rook", color)
  /\ ~isKingInCheck(board, color)
  /\ \A c \in KingPath(corner) :
       ~isSquareUnderAttack(Sq(HomeRow(color), c), board, Opponent(color))

\* The king's landing square when it castles towards column corner.
Landing(color, corner) == Sq(HomeRow(color), IF corner = 7 THEN 6 ELSE 2)

\* A king on its home square is the selected piece.
KingSelected(color) ==
  /\ selectedSquare = Sq(HomeRow(color), 4)
  /\ board[HomeRow(color)][4] = P("king", color)

\* C17: for a king on its home square getPseudoLegalMoves contains the
\* two-square move towards a rook if and only if the castling right is true,
\* the squares between are empty, the mover's rook stands on the corner, the
\* king is not in check and neither transit nor landing square is attacked.
C17_CastlingGenerated ==
  \A color \in PieceColor, corner \in {0, 7} :
    KingSelected(color) =>
      (Landing(color, corner)
         \in getPseudoLegalMoves(selectedSquare, board, enPassantTarget, castlingRights)
       <=> MayCastle(color, corner))

\* The Black king is selected; a rook on f1 attacks f8 and nothing else stands
\* in the way of castling kingside, which is not among the moves.
C17_Witness ==
  /\ KingSelected("black")
  /\ castlingRights.blackKingside
  /\ board[0][5] = NoPiece /\ board[0][6] = NoPiece
  /\ board[0][7] = P("rook", "black")
  /\ ~isKingInCheck(board, "black")
  /\ isSquareUnderAttack(Sq(0, 5), board, "white")
  /\ ~isSquareUnderAttack(Sq(0, 6), board, "white")
  /\ Sq(0, 6) \notin validMoves

\* A castling move of the selected king is among the moves offered.
CastlingOffered(color, corner) ==
  KingSelected(color) /\ Landing(color, corner) \in validMoves

\* C18 (offered): a castling move is offered only if neither the king nor the
\* rook that it would relocate has moved earlier in the game.
C18_OfferedOnlyUnmoved ==
  \A color \in PieceColor, corner \in {0, 7} :
    CastlingOffered(color, corner) =>
      {Sq(HomeRow(color), 4), Sq(HomeRow(color), corner)} \subseteq last.unmoved

\* C18 (applied): a castling move is applied only if neither the king nor the
\* rook that it relocates has moved earlier in the game.
C18_AppliedOnlyUnmoved ==
  MoveCommitted /\ last'.isCastling =>
    {last'.from, Sq(last'.from.row, IF last'.to.col > last'.from.col THEN 7 ELSE 0)}
      \subseteq last.unmoved

\* C18: in every game castling is offered or applied only with a king and a
\* rook that have not moved, also when the original rook was captured on its
\* corner and another rook of the colour stands there.
C18_CastlingUnmoved == []C18_OfferedOnlyUnmoved /\ [][C18_AppliedOnlyUnmoved]_vars

\* The move of this step is the first to clear that right: a move of the
\* king of that colour, or of its rook away from the home corner.
ClearsRight(color, corner) ==
  /\ last'.movingPiece.color = color
  /\ \/ last'.movingPiece.type = "king"
     \/ /\ last'.movingPiece.type = "rook"
        /\ last'.from = Sq(HomeRow(color), corner)

\* The handler of this step moves a piece of the board on display.
OnDisplayedBoard ==
  \/ last'.op # "aiMove"
  \/ aiTimers # <<>> /\ Head(aiTimers).currentBoard = board

\* C19: a move of the relevant king, or of the relevant rook away from its
\* home corner, leaves the right false; a move of any other piece, a rook of
\* that colour leaving another square of column 0 or 7 included, leaves the
\* right as it was.
C19_RightsAfterMove ==
  MoveCommitted /\ OnDisplayedBoard =>
    \A color \in PieceColor, corner \in {0, 7} :
      RightOf(castlingRights', color, corner)
        <=> (RightOf(castlingRights, color, corner) /\ ~ClearsRight(color, corner))

C19_RightsCleared == [][C19_RightsAfterMove]_vars

\* No castling right is true after this step that was false before it.
NoRightRestored ==
  \A color \in PieceColor, corner \in {0, 7} :
    RightOf(castlingRights', color, corner) => RightOf(castlingRights, color, corner)

\* C20: between two resets each castling right only changes from true to
\* false: no click, promotion choice, AI move or resignation sets a cleared
\* right back to true.
C20_RightsStep == last'.op # "reset" => NoRightRestored

C20_RightsOnlyCleared == [][C20_RightsStep]_vars

\* The column of the corner that the king of the latest move went towards,
\* and the column it crossed.
CornerOf(l) == IF l.to.col > l.from.col THEN 7 ELSE 0

CrossedBy(l) == IF l.to.col > l.from.col THEN 5 ELSE 3

\* This step applies a king's two-square move.
CastlingApplied ==
  /\ MoveCommitted
  /\ last'.movingPiece.type = "king"
  /\ Abs(last'.to.col - last'.from.col) = 2

\* C21: when a king's two-square move is applied, by White or by the AI, the
\* rook of that side's corner goes in the same step to the square the king
\* crossed, the corner becomes empty and both castling rights of the colour
\* become false.
C21_RookFollowsKing ==
  CastlingApplied =>
    LET l == last'
        color == l.movingPiece.color
        row == l.from.row
    IN /\ OnDisplayedBoard => board[row][CornerOf(l)] = P("rook", color)
       /\ board'[row][CrossedBy(l)] = P("rook", color)
       /\ board'[row][CornerOf(l)] = NoPiece
       /\ board'[l.to.row][l.to.col] = P("king", color)
       /\ ~RightOf(castlingRights', color, 7)
       /\ ~RightOf(castlingRights', color, 0)

Terminal == isCheckmate \/ isStalemate \/ isDraw

\* This step is a reset.
ResetStep == events' = events + 1 /\ last'.op = "reset"

\* What a game consists of: the position, the clock, the history, the
\* captured pieces and the result.
gameRecord ==
  <<board, currentTurn, castlingRights, enPassantTarget, halfMoveClock,
    positionHistory, capturedPieces, isCheckmate, isStalemate, isDraw, drawReason>>

\* C22: once a terminal result is recorded no operation other than reset
\* changes the board, the side to move, the castling rights, the en passant
\* target, the clock, the history, the captured lists or the terminal flags
\* and reason: later clicks, promotion choices and AI callbacks have no effect.
C22_FrozenStep == Terminal /\ ~ResetStep => UNCHANGED gameRecord

C22_TerminalIsFinal == [][C22_FrozenStep]_vars

PromotionPending == promotionSquare # NoPos

\* This step is the choice of the promotion piece.
PromotionChoice ==
  promotionSquare # NoPos /\ promotionSquare' = NoPos /\ last'.op = "promotion"

\* C23: while a promotion is pending no square click selects a piece or
\* applies a move and no AI move is scheduled or applied; the game advances
\* only through the promotion choice or a reset.
C23_PendingStep ==
  PromotionPending /\ ~PromotionChoice /\ ~ResetStep =>
    /\ UNCHANGED <<board, selectedSquare, validMoves, currentTurn>>
    /\ Len(aiTimers') <= Len(aiTimers)

C23_PromotionBlocks == [][C23_PendingStep]_vars

\* The latest applied move is a move of that side that stays on the board.
LatestMoveBy(side) ==
  last.committed /\ last.by = side /\ last.op \in MoveOps \cup {"promotion"}

\* White's latest move is complete and awaits the AI's reply.
AwaitingReply ==
  last.committed /\ last.by = "white" /\ last.op \in {"move", "promotion"} /\ ~Terminal

\* C24: the moves of White and of the AI strictly alternate: from the moment a
\* move of White is accepted until the AI's reply is applied or a terminal
\* result recorded, handleSquareClick accepts no selection and no move, and
\* exactly one move of the AI is applied per accepted move of White.
C24_AlternateStep ==
  /\ \A side \in PieceColor :
       LatestMoveBy(side) /\ MoveCommitted => last'.by # side
  /\ AwaitingReply /\ ~ResetStep => UNCHANGED <<selectedSquare, validMoves>>

C24_MovesAlternate == [][C24_AlternateStep]_vars

\* Black is to move, the game is not over and the bound on the events leaves
\* room for the reply.
C25_BlackToMove == currentTurn = "black" /\ ~Terminal /\ events < MaxEvents

NoMoveStep ==
  /\ events' = events
  /\ last' = last
  /\ promotionSquare' = promotionSquare

\* A click changed the selection without a move being accepted.
ClickWithoutMove ==
  NoMoveStep /\ <<selectedSquare, validMoves>>' # <<selectedSquare, validMoves>>

\* C26: a click that is not an accepted move (nothing selected, or the clicked
\* square not among the legal moves of the selected piece) leaves the board,
\* the side to move, the castling rights, the en-passant target, the clock,
\* the history, the captured lists and the terminal flags unchanged, and
\* schedules no move of the AI.
C26_ClickStep == ClickWithoutMove => UNCHANGED <<gameRecord, aiTimers>>

C26_RejectedClickKeepsGame == [][C26_ClickStep]_vars

\* A piece is selected in a game in which nothing has been played.
C26_Witness ==
  /\ selectedSquare = Sq(6, 4) /\ validMoves = {Sq(5, 4), Sq(4, 4)}
  /\ board = initializeBoard /\ currentTurn = "white"
  /\ events = 0 /\ aiTimers = <<>> /\ positionHistory = <<>> /\ ~Terminal

\* With a piece selected, a square is clicked that is none of its legal moves:
\* the click is handled (719), no move is applied, and the selection after
\* the step is not the outcome of the safety return of 733-738.
IllegalMoveAttempt ==
  /\ selectedSquare # NoPos
  /\ ~ClickBlocked
  /\ NoMoveStep
  /\ UNCHANGED <<gameRecord, aiTimers>>
  /\ selectedSquare' \notin validMoves
  /\ \A m \in validMoves : board[m.row][m.col].type # "king"

\* C27: an illegal-move attempt leaves the selection as it was: selectedSquare
\* and validMoves after the click equal those before it.
C27_AttemptStep == IllegalMoveAttempt => UNCHANGED <<selectedSquare, validMoves>>

C27_SelectionKept == [][C27_AttemptStep]_vars

\* handleResign has run: the game was not over, and of all handlers that
\* leave the events and the promotion square alone only handleResign ends it.
ResignStep ==
  /\ ~isCheckmate /\ isCheckmate'
  /\ NoMoveStep

\* C28: a resignation makes the game terminal with the reason "White
\* resigned"; handleResign changes no square of the board, nor the side to
\* move, the castling rights, the en-passant target, the clock, the history
\* or the captured lists, and records no draw.
C28_ResignOnly ==
  ResignStep =>
    /\ Terminal' /\ drawReason' = "White resigned"
    /\ ~isDraw'
    /\ UNCHANGED <<board, currentTurn, castlingRights, enPassantTarget,
                   halfMoveClock, positionHistory, capturedPieces, isDraw>>

C28_Resignation == [][C28_ResignOnly]_vars

\* White has resigned in the middle of a game.
C28_Witness ==
  /\ isCheckmate /\ drawReason = "White resigned" /\ ~isDraw /\ ~isStalemate
  /\ board = CastlingBoard /\ currentTurn = "white"
  /\ castlingRights = InitialRights /\ events = 0

\* The row step of a pawn of that colour: White advances towards row 0.
AdvanceOf(color) == IF color = "white" THEN -1 ELSE 1

Sign(n) == IF n < 0 THEN -1 ELSE IF n > 0 THEN 1 ELSE 0

\* Squares s and t lie on one diagonal, or on one row or column.
OnDiagonal(s, t) == s # t /\ Abs(t.row - s.row) = Abs(t.col - s.col)

OnStraight(s, t) == s # t /\ (t.row = s.row \/ t.col = s.col)

\* Every square strictly between s and t on their common line is empty.
LineClear(b, s, t) ==
  LET n == IF Abs(t.row - s.row) > Abs(t.col - s.col)
           THEN Abs(t.row - s.row) ELSE Abs(t.col - s.col)
      dr == Sign(t.row - s.row)
      dc == Sign(t.col - s.col)
  IN \A k \in 1..(n - 1) : b[s.row + k * dr][s.col + k * dc] = NoPiece

\* The capture pattern of the piece on s reaches t.
CapturePattern(b, s, t) ==
  LET piece == b[s.row][s.col]
      dr == t.row - s.row
      dc == t.col - s.col
  IN CASE piece.type = "pawn" -> dr = AdvanceOf(piece.color) /\ Abs(dc) = 1
       [] piece.type = "knight" -> {Abs(dr), Abs(dc)} = {1, 2}
       [] piece.type = "king" -> s # t /\ Abs(dr) <= 1 /\ Abs(dc) <= 1
       [] piece.type = "bishop" -> OnDiagonal(s, t) /\ LineClear(b, s, t)
       [] piece.type = "rook" -> OnStraight(s, t) /\ LineClear(b, s, t)
       [] piece.type = "queen" ->
            (OnDiagonal(s, t) \/ OnStraight(s, t)) /\ LineClear(b, s, t)
       [] OTHER -> FALSE

\* C29: isSquareUnderAttack(square, board, byColor) is true exactly when some
\* piece of byColor has a capture pattern that reaches the square: a pawn one
\* row behind it diagonally in byColor's direction of advance, a knight an L
\* away, an adjacent king, a bishop or queen on a diagonal, a rook or queen on
\* a row or column, with only empty squares in between.
C29_AttackExact ==
  \A pos \in AllSquares, byColor \in PieceColor :
    isSquareUnderAttack(pos, board, byColor)
      <=> \E s \in PiecesOf(board, byColor) : CapturePattern(board, s, pos)

\* The moves of a king have been computed on a board where a white pawn
\* attacks a square, a slider attacks along an open line, and another slider's
\* line is closed by a piece in between.
C29_Witness ==
  /\ selectedSquare # NoPos
  /\ board[selectedSquare.row][selectedSquare.col].type = "king"
  /\ \E s \in PiecesOf(board, "white") :
       /\ board[s.row][s.col].type = "pawn"
       /\ s.col < 7
       /\ isSquareUnderAttack(Sq(s.row - 1, s.col + 1), board, "white")
       /\ ~isSquareUnderAttack(Sq(s.row + 1, s.col + 1), board, "white")
  /\ \E s \in AllSquares, t \in AllSquares :
       /\ board[s.row][s.col].type \in {"bishop", "rook", "queen"}
       /\ Abs(t.row - s.row) + Abs(t.col - s.col) >= 3
       /\ CapturePattern(board, s, t)
       /\ isSquareUnderAttack(t, board, board[s.row][s.col].color)
  /\ \E s \in AllSquares, t \in AllSquares :
       /\ board[s.row][s.col].type \in {"rook", "queen"}
       /\ OnStraight(s, t) /\ ~LineClear(board, s, t)
       /\ ~isSquareUnderAttack(t, board, board[s.row][s.col].color)

\* Some piece of that colour has a legal move on the board of the state.
HasLegalMove(color) ==
  \E s \in AllSquares :
    /\ board[s.row][s.col].color = color
    /\ getValidMoves(s, board, enPassantTarget, castlingRights) # {}

Checkmated(color) == checkForCheckmate(board, color, enPassantTarget, castlingRights)

Stalemated(color) == checkForStalemate(board, color, enPassantTarget, castlingRights)

\* C30: for one board and colour checkForCheckmate and checkForStalemate are
\* never both true; each is true only if no piece of the colour has a legal
\* move; and when there is no legal move exactly one of them is true:
\* checkmate if the king is in check, stalemate otherwise.
C30_MateOrStalemate ==
  \A color \in PieceColor :
    /\ ~(Checkmated(color) /\ Stalemated(color))
    /\ Checkmated(color) \/ Stalemated(color) => ~HasLegalMove(color)
    /\ ~HasLegalMove(color) =>
         /\ Checkmated(color) <=> isKingInCheck(board, color)
         /\ Stalemated(color) <=> ~isKingInCheck(board, color)

\* The moves of a piece of a checkmated side have been computed: there are
\* none, and the king is attacked.
C30_Witness ==
  /\ selectedSquare # NoPos
  /\ validMoves = {}
  /\ LET color == board[selectedSquare.row][selectedSquare.col].color
     IN /\ Checkmated(color)
        /\ ~Stalemated(color)
        /\ isKingInCheck(board, color)

\* C31: every capture applied by either side (ordinary, en passant, or by a
\* pawn that promotes on the capturing move) appends exactly the captured
\* piece to the captured list of that piece's colour, and nothing is appended
\* when no move is committed; only a reset empties the lists.
C31_CapturedAfterStep ==
  IF MoveCommitted /\ last'.isCapture /\ last'.capturedPiece # NoPiece
  THEN capturedPieces' =
         [capturedPieces EXCEPT ![last'.capturedPiece.color] =
                                  Append(@, last'.capturedPiece)]
  ELSE ~ResetStep => capturedPieces' = capturedPieces

C31_CapturesListed == [][C31_CapturedAfterStep]_vars

\* This step is the AI's choice of a move, taken from the oldest callback.
AIChooses == aiTimers # <<>> /\ last' # last /\ last'.op = "aiMove"

\* C32: the move the AI chooses belongs to the moves collected for Black
\* (511-524).  When Black is in check on the callback's board it is a king
\* move if one was collected; otherwise a move onto an occupied square if one
\* was collected; otherwise, and when Black is not in check, any of them.
C32_ChosenMove ==
  AIChooses =>
    LET t == Head(aiTimers)
        b == t.currentBoard
        collected == AllMoves(t)
        chosen == [from |-> last'.from, to |-> last'.to]
        ofKing == {m \in collected : b[m.from.row][m.from.col].type = "king"}
        captures == {m \in collected : b[m.to.row][m.to.col] # NoPiece}
    IN /\ chosen \in collected
       /\ isKingInCheck(b, "black") =>
            IF ofKing # {} THEN chosen \in ofKing
            ELSE captures # {} => chosen \in captures

C32_AIChoice == [][C32_ChosenMove]_vars

\* The position the latest move was made in.
PositionBefore == last.played[Len(last.played) - 1]

\* Black was in check with a move of another piece at hand, and the AI moved
\* the king.
C32_Witness ==
  /\ last.op = "aiMove" /\ last.committed
  /\ last.movingPiece = P("king", "black")
  /\ Len(last.played) >= 2
  /\ PositionBefore.turn = "black"
  /\ isKingInCheck(PositionBefore.board, "black")
  /\ \E s \in PiecesOf(PositionBefore.board, "black") :
       /\ PositionBefore.board[s.row][s.col].type # "king"
       /\ getValidMoves(s, PositionBefore.board, NoPos, NoRights) # {}

\* No pawn stands on the first or the last row.
NoPawnOnEndRows ==
  \A r \in {0, 7}, c \in Idx : board[r][c].type # "pawn"

\* handlePromotion puts a white piece of the chosen kind on the promotion
\* square and changes no other square; a black pawn that the AI moves to row 7
\* is a queen when the step is over.
C33_PromotionStep ==
  /\ PromotionChoice =>
       /\ last'.movingPiece.type \in PromotionKinds
       /\ board' = [board EXCEPT ![promotionSquare.row][promotionSquare.col] =
                                   P(last'.movingPiece.type, "white")]
  /\ MoveCommitted /\ last'.op = "aiMove" /\ last'.movingPiece.type = "pawn"
       /\ last'.to.row = 7
       => board'[7][last'.to.col] = P("queen", "black")

\* C33: promotion always replaces the pawn, by the piece chosen for White and
\* by a queen for the AI, in the step of the choice or of the AI's move; so in
\* every reachable state with no promotion pending no pawn stands on row 0 or
\* row 7.
C33_PawnsPromoted ==
  [](promotionSquare = NoPos => NoPawnOnEndRows) /\ [][C33_PromotionStep]_vars

\* White's pawn has become a knight on a8, and the AI has answered with its
\* pawn to a1, where a queen stands.
C33_Witness ==
  /\ last.op = "aiMove" /\ last.committed
  /\ last.movingPiece = P("pawn", "black") /\ last.to = Sq(7, 0)
  /\ board[7][0] = P("queen", "black")
  /\ board[0][0] = P("knight", "white")
  /\ promotionSquare = NoPos
  /\ NoPawnOnEndRows

\* A click has selected a piece.
PieceSelected ==
  NoMoveStep /\ selectedSquare' # NoPos /\ selectedSquare' # selectedSquare

\* C34: while White is in check, a click on a white piece that has no legal
\* move never selects it: every piece that a click selects while White's king
\* is attacked has a move, and each of its moves ends the check.
C34_SelectedStep ==
  PieceSelected /\ isKingInCheck(board, "white") =>
    /\ validMoves' # {}
    /\ \A m \in validMoves' :
         ~isKingInCheck(MoveOutcome(board, selectedSquare', m, castlingRights,
                                    enPassantTarget, "white").newBoard, "white")

C34_SelectableInCheck == [][C34_SelectedStep]_vars

\* White's king is attacked, a piece that can end the check is selected, and
\* another white piece has no legal move.
C34_Witness ==
  /\ isKingInCheck(board, "white") /\ whiteInCheck
  /\ selectedSquare # NoPos /\ validMoves # {}
  /\ currentTurn = "white" /\ ~Terminal /\ promotionSquare = NoPos
  /\ \E s \in PiecesOf(board, "white") :
       getValidMoves(s, board, enPassantTarget, castlingRights) = {}

\* The game record of a game in which nothing has been played.
InitialRecord ==
  /\ board = initializeBoard /\ currentTurn = "white"
  /\ castlingRights = InitialRights /\ enPassantTarget = NoPos
  /\ halfMoveClock = 0 /\ positionHistory = <<>>
  /\ capturedPieces = [white |-> <<>>, black |-> <<>>]
  /\ ~Terminal /\ drawReason = ""
  /\ promotionSquare = NoPos

\* After a reset the record is the initial one, and from then on it is changed
\* only by a move of White, a resignation or another reset.
C35_ResetStep ==
  /\ ResetStep => InitialRecord'
  /\ last.op = "reset" /\ ~ResetStep /\ ~ResignStep
       /\ ~(MoveApplied /\ last'.by = "white")
       => UNCHANGED <<gameRecord, promotionSquare>>

\* C35: after handleReset the game state equals the initial state and stays so
\* until White's next accepted move: a move of the AI that was scheduled before
\* the reset is never applied to the reset game.
C35_ResetGameUntouched == [][C35_ResetStep]_vars

\* This step completes a move: a move of either side that needs no promotion
\* choice, or the choice that completes White's move.
MoveFinished ==
  \/ MoveCommitted /\ last'.op \in {"move", "aiMove"}
  \/ PromotionChoice

\* C36: the draw conditions are evaluated on the position that results from
\* every applied move, a move of White completed by a promotion choice
\* included: when that position has insufficient material the game is recorded
\* as drawn in the same step, before the opponent moves.
C36_DrawAfterMove ==
  MoveFinished /\ hasInsufficientMaterial(board') => isDraw'

C36_DrawsEvaluated == [][C36_DrawAfterMove]_vars

\* C37: in every non-terminal state with White to move and no promotion
\* pending, whiteInCheck tells whether White's king is attacked on the current
\* board; in every non-terminal state with Black to move, blackInCheck tells
\* whether Black's king is attacked on the current board.
C37_CheckFlags ==
  ~Terminal =>
    /\ currentTurn = "white" /\ promotionSquare = NoPos
         => (whiteInCheck <=> isKingInCheck(board, "white"))
    /\ currentTurn = "black"
         => (blackInCheck <=> isKingInCheck(board, "black"))

\* White's move has given check: Black is to move and its flag is set.
C37_Witness ==
  /\ last.op = "move" /\ last.by = "white" /\ last.committed
  /\ currentTurn = "black" /\ ~Terminal
  /\ blackInCheck /\ isKingInCheck(board, "black")
  /\ ~whiteInCheck

====
